---- MODULE Spec2Model ----
(***************************************************************************)
(* Teemake (src/teemake.py): the interactive build wizard TeemakeBuilder.  *)
(* The model follows run() -> build_server() -> the four pipeline stages   *)
(* -> configure_server(), one action per prompt, check or stage.           *)
(*                                                                         *)
(* Strings are sequences of pieces (a piece is a TLA+ string that the code *)
(* never looks inside): concatenation and f-strings are \o, `in` is the    *)
(* contiguous-subsequence test, split() cuts at the " " pieces.  Folder    *)
(* names are sequences of one-character pieces, because                    *)
(* validate_server_name looks at single characters.                        *)
(***************************************************************************)
EXTENDS Integers, Sequences, FiniteSets, TLC

VARIABLES
    pc,               \* the place run() has reached
    is_root,          \* self.is_root
    package_manager,  \* self.package_manager
    name_input,       \* get_server_name: the local `name` last typed
    mode_choice,      \* select_game_mode: the local `choice` last typed, NoChoice before
    server_name,      \* self.server_name
    selected_mode,    \* self.selected_mode (its name), NoMode before selection
    current_options,  \* customize_build_options: current_options
    use_ninja_loop,   \* customize_build_options: the local use_ninja
    ncmds,            \* customization commands entered so far
    last_cmd,         \* customize_build_options: the last line processed that did not end
                      \* the loop, its outcome and the values before it
    custom_build_opts,\* build_server: custom_build_opts
    use_ninja,        \* build_server: use_ninja
    verbose,          \* self.verbose
    disk_ok,          \* check_disk_space: "unchecked", "enough", "low", "unknown"
    sudo_ok,          \* ensure_sudo: "unasked", "root", "cached", "granted", "no"
    issued,           \* the commands run_command started, in order
    stages,           \* the stage functions called, in order, each with its result
    hung,             \* a subprocess.run call that never returns is in progress
    cpu_read,         \* compile_server: what os.cpu_count() returned (0 for None), << >> if not called
    clone_seen,       \* clone_repository: how git ended and what the .git test found, << >> before
    dirs,             \* directories build_server created
    cwd,              \* the process's current working directory
    start_dir,        \* build_server: start_dir
    build_path,       \* run: build_path (NoPath for None)
    config_values,    \* _basic_configuration: config_values, in insertion order
    setting_idx,      \* _basic_configuration: position in `settings`
    cfg_file,         \* basic_config.cfg: its lines, NoFile while it does not exist
    save_ok,          \* _save_config_file: "none", "yes", "no"
    raised,           \* the exception that reached run(): "none", "KeyboardInterrupt", "Exception"
    interrupted_at,   \* the place a user interrupt was delivered at, "nowhere" if none
    exit_code         \* what run() returned, NoExit before

envVars == << is_root, package_manager >>
wizVars == << name_input, mode_choice, server_name, selected_mode >>
custVars == << current_options, use_ninja_loop, ncmds, last_cmd, custom_build_opts, use_ninja >>
checkVars == << verbose, disk_ok, sudo_ok >>
pipeVars == << issued, stages, hung, cpu_read, clone_seen, dirs, cwd, start_dir, build_path >>
cfgVars == << config_values, setting_idx, cfg_file, save_ok >>
excVars == << raised, interrupted_at, exit_code >>

vars == << pc, envVars, wizVars, custVars, checkVars, pipeVars, cfgVars, excVars >>

----------------------------------------------------------------------------
(* Strings as sequences of pieces *)

S(p) == << p >>

\* needle in hay (Python's `in` on strings): a contiguous run of pieces
Contains(hay, needle) ==
    \E i \in 0..(Len(hay) - Len(needle)) :
        \A j \in 1..Len(needle) : hay[i + j] = needle[j]

\* str.split(): the maximal runs of pieces between " " pieces
RECURSIVE SplitFrom(_, _, _)
SplitFrom(s, i, word) ==
    IF i > Len(s)
    THEN IF word = << >> THEN << >> ELSE << word >>
    ELSE IF s[i] = " "
         THEN (IF word = << >> THEN << >> ELSE << word >>) \o SplitFrom(s, i + 1, << >>)
         ELSE SplitFrom(s, i + 1, Append(word, s[i]))

Split(s) == SplitFrom(s, 1, << >>)

\* "a b c" written as its pieces
RECURSIVE Words(_)
Words(ws) ==
    IF ws = << >> THEN << >>
    ELSE IF Len(ws) = 1 THEN << ws[1] >>
    ELSE << ws[1], " " >> \o Words(Tail(ws))

SeqToSet(s) == { s[i] : i \in 1..Len(s) }

Min(a, b) == IF a < b THEN a ELSE b

----------------------------------------------------------------------------
(* The catalogs: PackageManager, GAME_MODES, AVAILABLE_BUILD_OPTIONS,      *)
(* BASE_DEPS, BASIC_CONFIG_SETTINGS                                        *)

PackageManager == { "apt-get", "dnf", "yum", "pacman", "zypper", "unknown" }

DefaultBuildOpts ==
    << S("cmake"), S("../source/"),
       << "-D", "CLIENT", "=", "OFF" >>, << "-D", "SERVER", "=", "ON" >> >>

GAME_MODES ==
    << [ name |-> "Teeworlds",
         url |-> S("https://github.com/teeworlds/teeworlds.git"),
         dependencies |->
             ( "apt-get" :> Words(<< "libpnglite-dev", "libwavpack-dev" >>) ) @@
             ( "dnf"     :> Words(<< "libpng-devel", "wavpack-devel" >>) ) @@
             ( "yum"     :> Words(<< "libpng-devel", "wavpack-devel" >>) ) @@
             ( "pacman"  :> Words(<< "libpng", "wavpack" >>) ) @@
             ( "zypper"  :> Words(<< "libpng16-devel", "wavpack-devel" >>) ),
         build_opts |-> DefaultBuildOpts ],
       [ name |-> "DDNet",
         url |-> S("https://github.com/ddnet/ddnet.git"),
         dependencies |->
             ( "apt-get" :> Words(<< "libvulkan-dev", "libsqlite3-dev", "libcurl4-openssl-dev" >>) ) @@
             ( "dnf"     :> Words(<< "vulkan-devel", "sqlite-devel", "libcurl-devel" >>) ) @@
             ( "yum"     :> Words(<< "vulkan-devel", "sqlite-devel", "libcurl-devel" >>) ) @@
             ( "pacman"  :> Words(<< "vulkan-icd-loader", "sqlite", "curl" >>) ) @@
             ( "zypper"  :> Words(<< "vulkan-devel", "sqlite3-devel", "libcurl-devel" >>) ),
         build_opts |-> DefaultBuildOpts ],
       [ name |-> "zCatch",
         url |-> S("https://github.com/jxsl13/zcatch.git"),
         dependencies |->
             ( "apt-get" :> Words(<< "libcurl4-openssl-dev" >>) ) @@
             ( "dnf"     :> Words(<< "libcurl-devel" >>) ) @@
             ( "yum"     :> Words(<< "libcurl-devel" >>) ) @@
             ( "pacman"  :> Words(<< "curl" >>) ) @@
             ( "zypper"  :> Words(<< "libcurl-devel" >>) ),
         build_opts |-> DefaultBuildOpts ] >>

ModeNames == { GAME_MODES[i].name : i \in 1..Len(GAME_MODES) }

NoMode == "none"

\* select_game_mode's `choice` before anything was typed
NoChoice == << "unasked" >>

ModeOf(mname) == CHOOSE m \in SeqToSet(GAME_MODES) : m.name = mname

\* BuildOption(name, description, current_value, option_type), description left out
BuildOption(flag, default, kind) ==
    [ name |-> flag, current_value |-> S(default), option_type |-> kind ]

GNinja == << "-G", "Ninja" >>

AVAILABLE_BUILD_OPTIONS ==
    ( "Teeworlds" :>
        << BuildOption(<< "-D", "CLIENT" >>, "OFF", "boolean"),
           BuildOption(<< "-D", "SERVER" >>, "ON", "boolean"),
           BuildOption(<< "-D", "MASTER", "SERVER" >>, "OFF", "boolean"),
           BuildOption(<< "-D", "TOOLS" >>, "OFF", "boolean"),
           BuildOption(<< "-D", "DEV" >>, "OFF", "boolean"),
           BuildOption(GNinja, "OFF", "generator") >> ) @@
    ( "DDNet" :>
        << BuildOption(<< "-D", "CLIENT" >>, "OFF", "boolean"),
           BuildOption(<< "-D", "SERVER" >>, "ON", "boolean"),
           BuildOption(<< "-D", "TOOLS" >>, "OFF", "boolean"),
           BuildOption(<< "-D", "MYSQL" >>, "OFF", "boolean"),
           BuildOption(<< "-D", "WEBSOCKETS" >>, "OFF", "boolean"),
           BuildOption(<< "-D", "VIDEORECORDER" >>, "OFF", "boolean"),
           BuildOption(<< "-D", "UPNP" >>, "OFF", "boolean"),
           BuildOption(<< "-D", "STEAM" >>, "OFF", "boolean"),
           BuildOption(<< "-D", "PREFER_BUNDLED_LIBS" >>, "OFF", "boolean"),
           BuildOption(GNinja, "OFF", "generator") >> ) @@
    ( "zCatch" :>
        << BuildOption(<< "-D", "CLIENT" >>, "OFF", "boolean"),
           BuildOption(<< "-D", "SERVER" >>, "ON", "boolean"),
           BuildOption(<< "-D", "TOOLS" >>, "OFF", "boolean"),
           BuildOption(<< "-D", "DEV" >>, "OFF", "boolean"),
           BuildOption(GNinja, "OFF", "generator") >> )

BASE_DEPS ==
    ( "apt-get" :> Words(<< "build-essential", "cmake", "git", "python3",
                            "libfreetype6-dev", "libsdl2-dev" >>) ) @@
    ( "dnf"     :> Words(<< "gcc", "gcc-c++", "make", "cmake", "git", "python3",
                            "freetype-devel", "SDL2-devel" >>) ) @@
    ( "yum"     :> Words(<< "gcc", "gcc-c++", "make", "cmake", "git", "python3",
                            "freetype-devel", "SDL2-devel" >>) ) @@
    ( "pacman"  :> Words(<< "base-devel", "cmake", "git", "python", "freetype2", "sdl2" >>) ) @@
    ( "zypper"  :> Words(<< "gcc", "gcc-c++", "make", "cmake", "git", "python3",
                            "freetype2-devel", "libSDL2-devel" >>) )

MIN_DISK_SPACE_MB == 2000

\* ConfigSetting(key, prompt, default, description), prompt and description left out
ConfigSetting(k, d) == [ key |-> k, default |-> d ]

BASIC_CONFIG_SETTINGS ==
    ( "Teeworlds" :>
        << ConfigSetting("sv_name", "My Teeworlds Server"),
           ConfigSetting("sv_port", "8303"),
           ConfigSetting("sv_max_clients", "16"),
           ConfigSetting("sv_gametype", "dm") >> ) @@
    ( "DDNet" :>
        << ConfigSetting("sv_name", "My DDNet Server"),
           ConfigSetting("sv_port", "8303"),
           ConfigSetting("sv_max_clients", "64"),
           ConfigSetting("sv_gametype", "DDraceNetwork") >> ) @@
    ( "zCatch" :>
        << ConfigSetting("sv_name", "My zCatch Server"),
           ConfigSetting("sv_port", "8303"),
           ConfigSetting("sv_max_clients", "16"),
           ConfigSetting("sv_gametype", "zCatch") >> )

\* dict.get(key, default)
Get(d, key, default) == IF key \in DOMAIN d THEN d[key] ELSE default

----------------------------------------------------------------------------
(* validate_server_name *)

LowerLetters == { "a","b","c","d","e","f","g","h","i","j","k","l","m",
                  "n","o","p","q","r","s","t","u","v","w","x","y","z" }
UpperLetters == { "A","B","C","D","E","F","G","H","I","J","K","L","M",
                  "N","O","P","Q","R","S","T","U","V","W","X","Y","Z" }
Digits == { "0","1","2","3","4","5","6","7","8","9" }

\* the character class [a-zA-Z0-9_-]
NameChars == LowerLetters \cup UpperLetters \cup Digits \cup { "_", "-" }

\* re.match(r'^[a-zA-Z0-9_-]+$', name): one or more class characters up to the
\* end of the string, where Python's $ also matches just before a newline that
\* ends the string
ReMatchName(name) ==
    \/ /\ Len(name) >= 1
       /\ \A i \in 1..Len(name) : name[i] \in NameChars
    \/ /\ Len(name) >= 2
       /\ name[Len(name)] = "\n"
       /\ \A i \in 1..(Len(name) - 1) : name[i] \in NameChars

MaxNameLen == 64

validate_server_name(name) ==
    IF \/ Contains(name, << ".", "." >>)
       \/ Contains(name, << "/" >>)
       \/ Contains(name, << "\\" >>)
    THEN FALSE
    ELSE IF ~ ReMatchName(name)
    THEN FALSE
    ELSE IF Len(name) < 1 \/ Len(name) > MaxNameLen
    THEN FALSE
    ELSE TRUE

----------------------------------------------------------------------------
(* customize_build_options: one command of the loop, and the final rebuild *)

\* str.upper() and str.lower(), piece by piece
UpperPiece(p) ==
    CASE p \in { "on", "On" } -> "ON"
      [] p \in { "off", "Off" } -> "OFF"
      [] p = "yes" -> "YES"
      [] p = "no" -> "NO"
      [] p \in { "true", "True" } -> "TRUE"
      [] p = "false" -> "FALSE"
      [] p = "maybe" -> "MAYBE"
      [] p \in { "done", "Done" } -> "DONE"
      [] OTHER -> p

LowerPiece(p) ==
    CASE p \in { "DONE", "Done" } -> "done"
      [] p \in { "ON", "On" } -> "on"
      [] p \in { "OFF", "Off" } -> "off"
      [] OTHER -> p

Upper(s) == [ i \in 1..Len(s) |-> UpperPiece(s[i]) ]
Lower(s) == [ i \in 1..Len(s) |-> LowerPiece(s[i]) ]

\* str.strip(): leading and trailing " " pieces removed
RECURSIVE LStrip(_)
LStrip(s) == IF s # << >> /\ Head(s) = " " THEN LStrip(Tail(s)) ELSE s

RECURSIVE RStrip(_)
RStrip(s) ==
    IF s # << >> /\ s[Len(s)] = " " THEN RStrip(SubSeq(s, 1, Len(s) - 1)) ELSE s

Strip(s) == RStrip(LStrip(s))

\* str.isdigit(): non-empty and every piece a digit character; "sup2" stands
\* for the superscript two (U+00B2), a digit for isdigit() and no numeral for
\* int()
DecimalPieces == { "0", "1", "2", "3", "4", "5", "6", "7", "8", "9", "10", "11" }
DigitPieces == DecimalPieces \cup { "sup2" }

IsDigit(s) == s # << >> /\ \A i \in 1..Len(s) : s[i] \in DigitPieces

PieceInt(p) ==
    CASE p = "0" -> 0 [] p = "1" -> 1 [] p = "2" -> 2 [] p = "3" -> 3
      [] p = "4" -> 4 [] p = "5" -> 5 [] p = "6" -> 6 [] p = "7" -> 7
      [] p = "8" -> 8 [] p = "9" -> 9 [] p = "10" -> 10 [] p = "11" -> 11

\* int(s) raises ValueError unless s is a numeral; the numerals entered here
\* are one piece long
IntRaises(s) == ~ (Len(s) = 1 /\ s[1] \in DecimalPieces)
IntOf(s) == PieceInt(s[1])

TruthyTokens == { S("ON"), S("YES"), S("TRUE"), S("1") }
BooleanTokens == { S("ON"), S("OFF"), S("YES"), S("NO"),
                   S("TRUE"), S("FALSE"), S("1"), S("0") }

\* current_options[name] = value (a dict assignment adds a missing key)
DictSet(d, key, value) == [ k \in (DOMAIN d) \cup { key } |-> IF k = key THEN value ELSE d[k] ]

\* the result of one pass of the loop body
LoopResult(cur, ninja, what) == [ cur |-> cur, ninja |-> ninja, outcome |-> what ]

\* SetByIndex with use_ninja left as it was when the generator is switched off
SetByIndexNinjaKept(opt, value, cur, ninja) ==
    IF opt.option_type = "generator"
    THEN IF Upper(value) \in TruthyTokens
         THEN LoopResult(DictSet(cur, opt.name, S("ON")),
                         IF opt.name = GNinja THEN TRUE ELSE ninja, "set")
         ELSE LoopResult(DictSet(cur, opt.name, S("OFF")), ninja, "set")
    ELSE IF opt.option_type = "boolean"
    THEN IF Upper(value) \notin BooleanTokens
         THEN LoopResult(cur, ninja, "invalid_boolean")
         ELSE LoopResult(DictSet(cur, opt.name,
                                 IF Upper(value) \in TruthyTokens THEN S("ON") ELSE S("OFF")),
                         ninja, "set")
    ELSE LoopResult(DictSet(cur, opt.name, value), ninja, "set")

\* lines 632-663: the option chosen by its number
SetByIndex(opt, value, cur, ninja) ==
    IF opt.option_type = "generator"
    THEN IF Upper(value) \in TruthyTokens
         THEN LoopResult(DictSet(cur, opt.name, S("ON")),
                         IF opt.name = GNinja THEN TRUE ELSE ninja, "set")
         ELSE LoopResult(DictSet(cur, opt.name, S("OFF")),
                         IF opt.name = GNinja THEN FALSE ELSE ninja, "set")
    ELSE IF opt.option_type = "boolean"
    THEN IF Upper(value) \notin BooleanTokens
         THEN LoopResult(cur, ninja, "invalid_boolean")
         ELSE LoopResult(DictSet(cur, opt.name,
                                 IF Upper(value) \in TruthyTokens THEN S("ON") ELSE S("OFF")),
                         ninja, "set")
    ELSE LoopResult(DictSet(cur, opt.name, value), ninja, "set")

\* SetByName with the values of a generator option validated like a boolean's
SetByNameGeneratorChecked(opt, value, cur, ninja) ==
    IF Upper(value) \notin BooleanTokens /\ opt.option_type \in { "generator", "boolean" }
    THEN LoopResult(cur, ninja, "invalid_boolean")
    ELSE SetByIndex(opt, value, cur, ninja)

\* SetByName without the validation of lines 693-700
SetByNameUnchecked(opt, value, cur, ninja) ==
    IF opt.option_type = "generator"
    THEN SetByIndex(opt, value, cur, ninja)
    ELSE IF opt.option_type = "boolean"
    THEN LoopResult(DictSet(cur, opt.name,
                            IF Upper(value) \in TruthyTokens THEN S("ON") ELSE S("OFF")),
                    ninja, "set")
    ELSE LoopResult(DictSet(cur, opt.name, value), ninja, "set")

\* lines 680-708: the option chosen by its name
SetByName(opt, value, cur, ninja) ==
    IF opt.option_type = "generator"
    THEN IF Upper(value) \in TruthyTokens
         THEN LoopResult(DictSet(cur, opt.name, S("ON")),
                         IF opt.name = GNinja THEN TRUE ELSE ninja, "set")
         ELSE LoopResult(DictSet(cur, opt.name, S("OFF")),
                         IF opt.name = GNinja THEN FALSE ELSE ninja, "set")
    ELSE IF opt.option_type = "boolean"
    THEN IF Upper(value) \notin BooleanTokens
         THEN LoopResult(cur, ninja, "invalid_boolean")
         ELSE LoopResult(DictSet(cur, opt.name,
                                 IF Upper(value) \in TruthyTokens THEN S("ON") ELSE S("OFF")),
                         ninja, "set")
    ELSE LoopResult(DictSet(cur, opt.name, value), ninja, "set")

\* position of the first "=" piece of s (s holds one)
FirstEq(s) == CHOOSE k \in 1..Len(s) : s[k] = "=" /\ \A j \in 1..(k - 1) : s[j] # "="

\* lines 616-735: the loop body applied to the stripped user_input
LoopBody(available_options, cur, ninja, user_input) ==
    IF user_input = << >> \/ Lower(user_input) = S("done")
    THEN LoopResult(cur, ninja, "break")
    ELSE IF Contains(user_input, S("="))
    THEN LET k == FirstEq(user_input)
             option_part == Strip(SubSeq(user_input, 1, k - 1))
             value == Strip(SubSeq(user_input, k + 1, Len(user_input)))
         IN  IF IsDigit(option_part)
             THEN IF IntRaises(option_part)
                  THEN LoopResult(cur, ninja, "ValueError")
                  ELSE IF 1 <= IntOf(option_part) /\ IntOf(option_part) <= Len(available_options)
                       THEN SetByIndex(available_options[IntOf(option_part)], value, cur, ninja)
                       ELSE LoopResult(cur, ninja, "invalid_number")
             ELSE IF \E i \in 1..Len(available_options) : available_options[i].name = option_part
                  THEN LET first == CHOOSE i \in 1..Len(available_options) :
                                        /\ available_options[i].name = option_part
                                        /\ \A j \in 1..(i - 1) : available_options[j].name # option_part
                       IN  SetByName(available_options[first], value, cur, ninja)
                  ELSE LoopResult(cur, ninja, "not_in_list")
    ELSE IF user_input = GNinja
    THEN LoopResult(DictSet(cur, GNinja, S("ON")), TRUE, "set")
    ELSE LoopResult(cur, ninja, "invalid_format")

\* line 572: current_options = {opt.name: opt.current_value for opt in available_options}
InitialOptions(available_options) ==
    [ n \in { available_options[i].name : i \in 1..Len(available_options) } |->
        (CHOOSE o \in SeqToSet(available_options) : o.name = n).current_value ]

\* CustomEntry without the comparison against the default of line 740
CustomEntryAlways(opt, cur) ==
    LET current_val == Get(cur, opt.name, opt.current_value)
    IN  IF opt.option_type = "generator"
        THEN IF current_val = S("ON") THEN << opt.name >> ELSE << >>
        ELSE << opt.name \o S("=") \o current_val >>

\* lines 738-749: the entry custom_options gets for one option, << >> for none
CustomEntry(opt, cur) ==
    LET current_val == Get(cur, opt.name, opt.current_value)
    IN  IF current_val # opt.current_value
        THEN IF opt.option_type = "generator"
             THEN IF current_val = S("ON") THEN << opt.name >> ELSE << >>
             ELSE << opt.name \o S("=") \o current_val >>
        ELSE << >>

RECURSIVE CustomOptionsFrom(_, _, _)
CustomOptionsFrom(available_options, cur, i) ==
    IF i > Len(available_options) THEN << >>
    ELSE CustomEntry(available_options[i], cur) \o
         CustomOptionsFrom(available_options, cur, i + 1)

CustomOptions(available_options, cur) == CustomOptionsFrom(available_options, cur, 1)

\* FinalCommand returning False for use_ninja in both branches
FinalCommandNinjaOff(mode, custom_options, ninja) ==
    IF custom_options # << >>
    THEN LET has_client == \E i \in 1..Len(custom_options) :
                               Contains(custom_options[i], << "-D", "CLIENT" >>)
             has_server == \E i \in 1..Len(custom_options) :
                               Contains(custom_options[i], << "-D", "SERVER" >>)
         IN  [ build_opts |-> << S("cmake"), S("../source/") >> \o custom_options
                              \o (IF ~ has_client THEN << << "-D", "CLIENT", "=", "OFF" >> >> ELSE << >>)
                              \o (IF ~ has_server THEN << << "-D", "SERVER", "=", "ON" >> >> ELSE << >>),
               use_ninja |-> FALSE ]
    ELSE [ build_opts |-> mode.build_opts, use_ninja |-> FALSE ]

\* FinalCommand with the two flags appended whatever custom_options holds
FinalCommandBothAppended(mode, custom_options, ninja) ==
    IF custom_options # << >>
    THEN [ build_opts |-> << S("cmake"), S("../source/") >> \o custom_options
                          \o << << "-D", "CLIENT", "=", "OFF" >>, << "-D", "SERVER", "=", "ON" >> >>,
           use_ninja |-> ninja ]
    ELSE [ build_opts |-> mode.build_opts, use_ninja |-> FALSE ]

\* FinalCommand without the two flags of lines 759-762
FinalCommandBare(mode, custom_options, ninja) ==
    IF custom_options # << >>
    THEN [ build_opts |-> << S("cmake"), S("../source/") >> \o custom_options,
           use_ninja |-> ninja ]
    ELSE [ build_opts |-> mode.build_opts, use_ninja |-> FALSE ]

\* lines 751-769: the argument list and use_ninja the function returns
FinalCommand(mode, custom_options, ninja) ==
    IF custom_options # << >>
    THEN LET has_client == \E i \in 1..Len(custom_options) :
                               Contains(custom_options[i], << "-D", "CLIENT" >>)
             has_server == \E i \in 1..Len(custom_options) :
                               Contains(custom_options[i], << "-D", "SERVER" >>)
         IN  [ build_opts |-> << S("cmake"), S("../source/") >> \o custom_options
                              \o (IF ~ has_client THEN << << "-D", "CLIENT", "=", "OFF" >> >> ELSE << >>)
                              \o (IF ~ has_server THEN << << "-D", "SERVER", "=", "ON" >> >> ELSE << >>),
               use_ninja |-> ninja ]
    ELSE [ build_opts |-> mode.build_opts, use_ninja |-> FALSE ]

----------------------------------------------------------------------------
(* run_command and the commands of the four stages *)

MaxCores == 16

\* what the external process does: ends with code 0, ends with another code,
\* cannot be launched, or is still running after the timeout
ProcessOutcomes == { "exit0", "nonzero", "launch_error", "hang" }

\* lines 374-441: what run_command does with the process's outcome:
\* "ok" (True, ...), "failed" (False, ...), "raised" (the exception leaves
\* run_command) or "blocked" (subprocess.run never returns)
run_command(is_verbose, outcome) ==
    IF is_verbose
    THEN CASE outcome = "exit0" -> "ok"
           [] outcome = "nonzero" -> "failed"
           [] outcome = "launch_error" -> "raised"
           [] outcome = "hang" -> "blocked"
    ELSE CASE outcome = "exit0" -> "ok"
           [] outcome = "nonzero" -> "failed"
           [] outcome = "launch_error" -> "failed"
           [] outcome = "hang" -> "failed"

\* get_install_command with the root form of the prefix for every user
get_install_command_as_root(pm, root, dependencies) ==
    CASE pm \in { "apt-get", "dnf", "yum", "zypper" } ->
             << S(pm), S("install"), S("-y") >> \o Split(dependencies)
      [] pm = "pacman" -> << S("pacman"), S("-S"), S("--noconfirm") >> \o Split(dependencies)
      [] OTHER -> << >>

\* lines 771-801
get_install_command(pm, root, dependencies) ==
    CASE pm = "apt-get" ->
             (IF ~ root THEN << S("sudo"), S("apt-get"), S("install"), S("-y") >>
                        ELSE << S("apt-get"), S("install"), S("-y") >>) \o Split(dependencies)
      [] pm = "dnf" ->
             (IF ~ root THEN << S("sudo"), S("dnf"), S("install"), S("-y") >>
                        ELSE << S("dnf"), S("install"), S("-y") >>) \o Split(dependencies)
      [] pm = "yum" ->
             (IF ~ root THEN << S("sudo"), S("yum"), S("install"), S("-y") >>
                        ELSE << S("yum"), S("install"), S("-y") >>) \o Split(dependencies)
      [] pm = "pacman" ->
             (IF ~ root THEN << S("sudo"), S("pacman"), S("-S"), S("--noconfirm") >>
                        ELSE << S("pacman"), S("-S"), S("--noconfirm") >>) \o Split(dependencies)
      [] pm = "zypper" ->
             (IF ~ root THEN << S("sudo"), S("zypper"), S("install"), S("-y") >>
                        ELSE << S("zypper"), S("install"), S("-y") >>) \o Split(dependencies)
      [] OTHER -> << >>

ninja_packages ==
    ( "apt-get" :> S("ninja-build") ) @@ ( "dnf" :> S("ninja-build") ) @@
    ( "yum" :> S("ninja-build") ) @@ ( "pacman" :> S("ninja") ) @@
    ( "zypper" :> S("ninja") )

\* InstallCommand without the packages of the selected mode
InstallBaseOnly(pm, root, mode, ninja) ==
    get_install_command(pm, root, Get(BASE_DEPS, pm, Get(BASE_DEPS, "apt-get", << >>)))

\* lines 832-854: the install command of install_dependencies
InstallCommand(pm, root, mode, ninja) ==
    LET base_deps == Get(BASE_DEPS, pm, Get(BASE_DEPS, "apt-get", << >>))
        mode_deps == Get(mode.dependencies, pm, Get(mode.dependencies, "apt-get", << >>))
        all_deps == base_deps \o S(" ") \o mode_deps
        with_ninja == IF ninja
                      THEN all_deps \o S(" ") \o Get(ninja_packages, pm, S("ninja-build"))
                      ELSE all_deps
    IN  get_install_command(pm, root, with_ninja)

\* line 880
CloneCommand(mode) == << S("git"), S("clone"), S("--recursive"), mode.url, S(".") >>

\* Cores without the cap
CoresUncapped(cpu_count) == IF cpu_count = 0 THEN 2 ELSE cpu_count

\* line 941: cores = min(os.cpu_count() or 2, 16); cpu_count 0 stands for None
Cores(cpu_count) == Min(IF cpu_count = 0 THEN 2 ELSE cpu_count, MaxCores)

\* lines 931-948
CompileCommand(ninja, cpu_count) ==
    IF ninja THEN << S("ninja") >>
    ELSE << S("make"), << "-j", ToString(Cores(cpu_count)) >> >>

\* paths are sequences of components below the directory the process started in
StartDir == << S("<cwd>") >>
NoPath == << >>

\* lines 1227-1237
ServerPath(name) == << name >>
SourcePath(name) == StartDir \o ServerPath(name) \o << S("source") >>
BuildPath(name) == StartDir \o ServerPath(name) \o << S("server") >>

----------------------------------------------------------------------------
(* _basic_configuration and _save_config_file *)

\* int(value) for the answers entered at the configuration prompts; int()
\* also accepts an underscore between digits ("8_303" is 8303)
ConfigNumerals ==
    ( "0" :> 0 ) @@ ( "1" :> 1 ) @@ ( "16" :> 16 ) @@ ( "64" :> 64 ) @@
    ( "256" :> 256 ) @@ ( "257" :> 257 ) @@ ( "80" :> 80 ) @@ ( "1023" :> 1023 ) @@
    ( "1024" :> 1024 ) @@ ( "8303" :> 8303 ) @@ ( "65535" :> 65535 ) @@
    ( "65536" :> 65536 ) @@ ( "8_303" :> 8303 ) @@ ( "1_6" :> 16 )

MinPort == 1024
MaxPort == 65535
MinClients == 1
MaxClients == 256

\* lines 1052-1080: whether the answer is stored (TRUE) or asked again (FALSE)
AnswerAccepted(key, value) ==
    IF key = "sv_port"
    THEN IF value \notin DOMAIN ConfigNumerals
         THEN FALSE
         ELSE ~ (ConfigNumerals[value] < MinPort \/ ConfigNumerals[value] > MaxPort)
    ELSE IF key = "sv_max_clients"
    THEN IF value \notin DOMAIN ConfigNumerals
         THEN FALSE
         ELSE ~ (ConfigNumerals[value] < MinClients \/ ConfigNumerals[value] > MaxClients)
    ELSE TRUE

\* config_values[key] = value on an insertion-ordered dict
DictPut(d, key, value) ==
    IF \E i \in 1..Len(d) : d[i].key = key
    THEN [ i \in 1..Len(d) |-> IF d[i].key = key THEN [ key |-> key, value |-> value ] ELSE d[i] ]
    ELSE Append(d, [ key |-> key, value |-> value ])

\* ConfigLine with every value quoted
ConfigLineQuoted(key, value) == << key, " ", "\"", value, "\"" >>

\* lines 1138-1141: the line written for one key
ConfigLine(key, value) ==
    IF key \in { "sv_port", "sv_max_clients" }
    THEN << key, " ", value >>
    ELSE << key, " ", "\"", value, "\"" >>

\* lines 1131-1134
ConfigHeader(mode_name) ==
    << << "//", " Teeworlds Server Configuration" >>,
       << "//", " Generated by TEEMAKE v3.0" >>,
       << "//", " Game Mode: ", mode_name >>,
       << >> >>

\* lines 1131-1141: every line _save_config_file writes
ConfigFileLines(mode_name, values) ==
    ConfigHeader(mode_name) \o
    [ i \in 1..Len(values) |-> ConfigLine(values[i].key, values[i].value) ]

NoFile == << "no file" >>
NoExit == -1

----------------------------------------------------------------------------
(* What the user types and what the environment answers *)

MaxShortName == 2
MaxCmds == 1
MaxDeepCmds == 2

myserver == << "m", "y", "s", "e", "r", "v", "e", "r" >>

\* names typed at the folder-name prompt (input() returns one line, without
\* its newline)
WizardNames ==
    { myserver, << >>, << "a", "/", "b" >>, << ".", "." >>, << "a", " " >> }

\* candidate names for validate_server_name
NameAlphabet == { "a", "Z", "0", "_", "-", ".", "/", "\\", "\n", " ", "!" }

Repeat(c, n) == [ i \in 1..n |-> c ]

ShortNames == UNION { [ 1..n -> NameAlphabet ] : n \in 0..MaxShortName }

LongNames ==
    { Repeat("a", n) : n \in { MaxNameLen - 1, MaxNameLen, MaxNameLen + 1 } } \cup
    { Append(Repeat("a", n), c) : n \in { MaxNameLen - 1, MaxNameLen }, c \in { "\n", "-", "/" } }

NameCandidates == ShortNames \cup LongNames \cup { myserver }

\* answers at the mode prompt
ModeChoices == { S("0"), S("1"), S("2"), S("3"), S("4"), S("x"), S("sup2"), << >> }

ValuePieces == { "ON", "on", "yes", "TRUE", "1", "OFF", "no", "false", "0", "maybe" }

OptionNames(available_options) ==
    { available_options[i].name : i \in 1..Len(available_options) }

IndexPieces(available_options) ==
    { p \in DecimalPieces : PieceInt(p) <= Len(available_options) + 1 } \cup { "sup2" }

\* every kind of line typed at the customization prompt
AllInputs(available_options) ==
    { << >>, S("done"), S("Done"), GNinja, S("foo") } \cup
    { << d, "=", v >> : d \in IndexPieces(available_options), v \in ValuePieces } \cup
    { n \o << "=", v >> : n \in OptionNames(available_options) \cup { << "-D", "FOO" >> },
                          v \in ValuePieces } \cup
    { << "1", " ", "=", " ", "ON" >>, << "1", "=" >>, << "1", "=", "ON", "=", "x" >>,
      << "=", "ON" >> }

\* the lines typed in a whole run: each option switched by number, Ninja also
\* by name and by the shorthand, and one line of each rejected kind
WizardInputs(available_options) ==
    { << >>, S("done"), GNinja, S("foo") } \cup
    { << d, "=", v >> : d \in IndexPieces(available_options) \ { "0" }, v \in { "ON", "off" } } \cup
    { GNinja \o << "=", v >> : v \in { "yes", "0" } } \cup
    { << "1", "=", "maybe" >>, << "-D", "FOO", "=", "ON" >> }

FreeMegabytes == { 0, MIN_DISK_SPACE_MB - 1, MIN_DISK_SPACE_MB, MIN_DISK_SPACE_MB + 1 }

CpuCounts == { 0, 1, 16, 64 }

\* the answers of a whole run: the defaults, and one rejected answer for each
\* checked key
ConfigAnswers(setting) ==
    CASE setting.key = "sv_port" -> { setting.default, "80", "abc" }
      [] setting.key = "sv_max_clients" -> { setting.default, "257" }
      [] OTHER -> { setting.default }

AllConfigAnswers(setting) ==
    CASE setting.key = "sv_name" -> { setting.default, "X", "a \"b\"" }
      [] setting.key = "sv_port" ->
             { setting.default, "80", "1023", "1024", "65535", "65536", "abc", "8_303" }
      [] setting.key = "sv_max_clients" ->
             { setting.default, "0", "1", "256", "257", "many", "1_6" }
      [] OTHER -> { setting.default, "ctf" }

NoOptions == << >>
NoCmd == [ input |-> << >>, outcome |-> "none", before |-> << >>, ninja_before |-> FALSE ]

----------------------------------------------------------------------------
(* The state after TeemakeBuilder() was constructed and run() was entered *)

Init ==
    /\ pc = "header"
    /\ is_root \in BOOLEAN
    /\ package_manager \in PackageManager
    /\ name_input = << >>
    /\ mode_choice = NoChoice
    /\ server_name = << >>
    /\ selected_mode = NoMode
    /\ current_options = NoOptions
    /\ use_ninja_loop = FALSE
    /\ ncmds = 0
    /\ last_cmd = NoCmd
    /\ custom_build_opts = << >>
    /\ use_ninja = FALSE
    /\ verbose = FALSE
    /\ disk_ok = "unchecked"
    /\ sudo_ok = "unasked"
    /\ issued = << >>
    /\ stages = << >>
    /\ hung = FALSE
    /\ cpu_read = << >>
    /\ clone_seen = << >>
    /\ dirs = { }
    /\ cwd = StartDir
    /\ start_dir = NoPath
    /\ build_path = NoPath
    /\ config_values = << >>
    /\ setting_idx = 0
    /\ cfg_file = NoFile
    /\ save_ok = "none"
    /\ raised = "none"
    /\ interrupted_at = "nowhere"
    /\ exit_code = NoExit

----------------------------------------------------------------------------
(* run(): the wizard steps of build_server *)

Mode == ModeOf(selected_mode)
Available == Get(AVAILABLE_BUILD_OPTIONS, selected_mode, << >>)

\* run() returns `code`
Return(code) == pc' = "exited" /\ exit_code' = code

\* HandlerExit with one code for both handlers
HandlerExitOne(exception) == 1

\* lines 1323-1333: the exit code of run()'s two handlers
HandlerExit(exception) == IF exception = "KeyboardInterrupt" THEN 130 ELSE 1

\* an exception reaches run()'s handlers
Caught(exception) == Return(HandlerExit(exception)) /\ raised' = exception

\* line 1279
ShowHeader ==
    /\ pc = "header"
    /\ pc' = "NameEntry"
    /\ UNCHANGED << envVars, wizVars, custVars, checkVars, pipeVars, cfgVars, excVars >>

\* lines 476-485: one pass of get_server_name's loop
GetServerName(names) ==
    /\ pc = "NameEntry"
    /\ \E n \in names :
          /\ name_input' = n
          /\ IF validate_server_name(n)
             THEN server_name' = n /\ pc' = "ModeSelection"
             ELSE server_name' = server_name /\ pc' = "NameRetry"
    /\ UNCHANGED << envVars, mode_choice, selected_mode, custVars, checkVars, pipeVars, cfgVars, excVars >>

\* lines 487-492
NameRetry ==
    /\ pc = "NameRetry"
    /\ pc' = "NameEntry"
    /\ UNCHANGED << envVars, wizVars, custVars, checkVars, pipeVars, cfgVars, excVars >>

\* select_game_mode taking an index past the end for the last mode
SelectModeClamped(choice) ==
    IF IntRaises(choice) THEN NoMode
    ELSE IF 1 <= IntOf(choice) /\ IntOf(choice) <= Len(GAME_MODES)
    THEN GAME_MODES[IntOf(choice)].name
    ELSE IF 1 <= IntOf(choice) THEN GAME_MODES[Len(GAME_MODES)].name
    ELSE NoMode

\* lines 531-536: the mode chosen by the answer, NoMode when it is asked again
select_game_mode(choice) ==
    IF IntRaises(choice) THEN NoMode
    ELSE IF 1 <= IntOf(choice) /\ IntOf(choice) <= Len(GAME_MODES)
    THEN GAME_MODES[IntOf(choice)].name
    ELSE NoMode

\* lines 501-536
SelectGameMode ==
    /\ pc = "ModeSelection"
    /\ \E choice \in ModeChoices :
          /\ mode_choice' = choice
          /\ IF select_game_mode(choice) # NoMode
             THEN selected_mode' = select_game_mode(choice) /\ pc' = "CustomizeAsk"
             ELSE selected_mode' = selected_mode /\ pc' = "ModeRetry"
    /\ UNCHANGED << envVars, name_input, server_name, custVars, checkVars, pipeVars,
                    cfgVars, excVars >>

\* lines 538-540
ModeRetry ==
    /\ pc = "ModeRetry"
    /\ pc' = "ModeSelection"
    /\ UNCHANGED << envVars, wizVars, custVars, checkVars, pipeVars, cfgVars, excVars >>

\* lines 553-573: the question whether to customize
CustomizeAsk ==
    /\ pc = "CustomizeAsk"
    /\ \E customize \in BOOLEAN :
          IF ~ customize
          THEN /\ custom_build_opts' = Mode.build_opts
               /\ use_ninja' = FALSE
               /\ pc' = "VerboseToggle"
               /\ UNCHANGED << current_options, use_ninja_loop >>
          ELSE IF Available = << >>
          THEN /\ custom_build_opts' = Mode.build_opts
               /\ use_ninja' = FALSE
               /\ pc' = "NoChangesPause"
               /\ UNCHANGED << current_options, use_ninja_loop >>
          ELSE /\ current_options' = InitialOptions(Available)
               /\ use_ninja_loop' = FALSE
               /\ pc' = "CustomizeLoop"
               /\ UNCHANGED << custom_build_opts, use_ninja >>
    /\ UNCHANGED << envVars, wizVars, ncmds, last_cmd, checkVars, pipeVars, cfgVars, excVars >>

\* lines 575-769: one line typed at the customization prompt; `break` runs on
\* to the function's return
CustomizeCommand(inputs, max_cmds) ==
    /\ pc = "CustomizeLoop"
    /\ \E user_input \in inputs :
          \E r \in { LoopBody(Available, current_options, use_ninja_loop, user_input) } :
             IF r.outcome = "break"
             THEN \E custom_options \in { CustomOptions(Available, current_options) } :
                     \E final \in { FinalCommand(Mode, custom_options, use_ninja_loop) } :
                        /\ custom_build_opts' = final.build_opts
                        /\ use_ninja' = final.use_ninja
                        /\ IF custom_options = << >>
                           THEN pc' = "NoChangesPause" /\ UNCHANGED << ncmds, last_cmd >>
                           ELSE pc' = "VerboseToggle" /\ ncmds' = 0 /\ last_cmd' = NoCmd
                        /\ UNCHANGED << current_options, use_ninja_loop, excVars >>
             ELSE /\ ncmds < max_cmds
                  /\ ncmds' = ncmds + 1
                  /\ last_cmd' = [ input |-> user_input, outcome |-> r.outcome,
                                   before |-> current_options, ninja_before |-> use_ninja_loop ]
                  /\ current_options' = r.cur
                  /\ use_ninja_loop' = r.ninja
                  /\ UNCHANGED << custom_build_opts, use_ninja, interrupted_at >>
                  /\ IF r.outcome = "ValueError"
                     THEN Caught("Exception")
                     ELSE /\ pc' = IF r.outcome = "set" THEN "CustomizeLoop" ELSE "CustomizePause"
                          /\ UNCHANGED << raised, exit_code >>
    /\ UNCHANGED << envVars, wizVars, checkVars, pipeVars, cfgVars >>

\* the input() after a rejected line (lines 652, 671, 699, 719, 735)
CustomizePause ==
    /\ pc = "CustomizePause"
    /\ pc' = "CustomizeLoop"
    /\ UNCHANGED << envVars, wizVars, custVars, checkVars, pipeVars, cfgVars, excVars >>

\* lines 568-569 and 767-769: input(), then the defaults are returned
NoChangesPause ==
    /\ pc = "NoChangesPause"
    /\ pc' = "VerboseToggle"
    /\ ncmds' = 0
    /\ last_cmd' = NoCmd
    /\ UNCHANGED << envVars, wizVars, current_options, use_ninja_loop, custom_build_opts,
                    use_ninja, checkVars, pipeVars, cfgVars, excVars >>

\* lines 1177-1179
VerboseToggle ==
    /\ pc = "VerboseToggle"
    /\ verbose' \in BOOLEAN
    /\ pc' = "DiskCheck"
    /\ UNCHANGED << envVars, wizVars, custVars, disk_ok, sudo_ok, pipeVars, cfgVars, excVars >>

\* lines 283-305: what check_disk_space establishes
check_disk_space(available_mb, usage_raises) ==
    IF usage_raises THEN "unknown"
    ELSE IF available_mb < MIN_DISK_SPACE_MB THEN "low"
    ELSE "enough"

\* lines 1199-1203
CheckDiskSpace ==
    /\ pc = "DiskCheck"
    /\ \E mb \in FreeMegabytes, usage_raises \in BOOLEAN :
          /\ disk_ok' = check_disk_space(mb, usage_raises)
          /\ pc' = IF disk_ok' = "low" THEN "FailPause" ELSE "EnsureSudo"
    /\ UNCHANGED << envVars, wizVars, custVars, verbose, sudo_ok, pipeVars, cfgVars, excVars >>

SudoOutcomes == { "exit0", "nonzero", "timeout", "not_found" }

\* lines 315-336: root, or the probe `sudo -n true`
EnsureSudo ==
    /\ pc = "EnsureSudo"
    /\ IF is_root
       THEN sudo_ok' = "root" /\ pc' = "StartPause"
       ELSE \E probe \in SudoOutcomes :
               IF probe = "exit0"
               THEN sudo_ok' = "cached" /\ pc' = "StartPause"
               ELSE sudo_ok' = sudo_ok /\ pc' = "SudoAuth"
    /\ UNCHANGED << envVars, wizVars, custVars, verbose, disk_ok, pipeVars, cfgVars, excVars >>

\* lines 338-348: `sudo -v`; FileNotFoundError is caught by none of its handlers
SudoAuth ==
    /\ pc = "SudoAuth"
    /\ \E auth \in SudoOutcomes :
          CASE auth = "exit0" ->
                   sudo_ok' = "granted" /\ pc' = "StartPause" /\ UNCHANGED << raised, exit_code >>
            [] auth \in { "nonzero", "timeout" } ->
                   sudo_ok' = "no" /\ pc' = "FailPause" /\ UNCHANGED << raised, exit_code >>
            [] auth = "not_found" ->
                   sudo_ok' = sudo_ok /\ Caught("Exception")
    /\ UNCHANGED << envVars, wizVars, custVars, verbose, disk_ok, pipeVars, cfgVars,
                    interrupted_at >>

\* "Press Enter to exit...", return None, and run() returns 1
\* (lines 1201-1203, 1207-1209, 1222-1224, 1315-1321)
FailPause ==
    /\ pc = "FailPause"
    /\ Return(1)
    /\ UNCHANGED << envVars, wizVars, custVars, checkVars, pipeVars, cfgVars, raised,
                    interrupted_at >>

\* lines 1211-1217
StartPause ==
    /\ pc = "StartPause"
    /\ pc' = "Install"
    /\ UNCHANGED << envVars, wizVars, custVars, checkVars, pipeVars, cfgVars, excVars >>

----------------------------------------------------------------------------
(* build_server: the four stages *)

\* FinallyChdir ending in the build directory
FinallyStay(start, build) == build

\* line 1269: the directory the finally block changes to
FinallyChdir(start, build) == start

StageEntry(stage, result) == [ stage |-> stage, result |-> result ]

\* lines 878-892: how the git process ended and what the test of the .git
\* marker found; the marker is tested only after run_command reported success
CloneSeen(process_outcome, res, git_marker) ==
    [ exit |-> process_outcome,
      marker |-> IF res # "ok" THEN "untested"
                 ELSE IF git_marker THEN "present" ELSE "absent" ]

\* StageResult without the stage's own check
StageResultUnchecked(process_outcome, check_ok) == run_command(verbose, process_outcome)

\* what a stage function makes of run_command's result and its own check
StageResult(process_outcome, check_ok) ==
    LET res == run_command(verbose, process_outcome)
    IN  IF res = "ok" /\ ~ check_ok THEN "failed" ELSE res

\* GoesOn with the result of the stage ignored
GoesOnRegardless(result) == TRUE

\* lines 1250, 1255, 1260: `if not <stage>(...): return None`
GoesOn(result) == result = "ok"

\* A stage inside build_server's try block (lines 1248-1270): the command is
\* started; success goes on to next_pc, failure returns None through the
\* finally block, an exception leaves through it to run()'s handler
TryStage(stage, argv, dir, result, next_pc) ==
    /\ issued' = Append(issued, [ argv |-> argv, cwd |-> dir ])
    /\ stages' = Append(stages, StageEntry(stage, IF result = "blocked" THEN "running" ELSE result))
    /\ hung' = (result = "blocked")
    /\ CASE result = "raised" ->
                /\ Caught("Exception")
                /\ cwd' = FinallyChdir(start_dir, BuildPath(server_name))
                /\ UNCHANGED build_path
         [] result = "blocked" ->
                UNCHANGED << pc, raised, exit_code, build_path, cwd >>
         [] result \in { "ok", "failed" } /\ GoesOn(result) ->
                /\ pc' = next_pc
                /\ UNCHANGED << raised, exit_code >>
                /\ IF next_pc = "BuildComplete"
                   THEN /\ build_path' = BuildPath(server_name)
                        /\ cwd' = FinallyChdir(start_dir, BuildPath(server_name))
                   ELSE UNCHANGED << build_path, cwd >>
         [] result \in { "ok", "failed" } /\ ~ GoesOn(result) ->
                /\ Return(1)
                /\ cwd' = FinallyChdir(start_dir, BuildPath(server_name))
                /\ UNCHANGED << raised, build_path >>
    /\ UNCHANGED << dirs, start_dir, interrupted_at >>

\* lines 826-830: the answer to "Continue anyway?" is the result of the stage
ProceedAnyway(proceed) == IF proceed THEN "ok" ELSE "failed"

\* AfterInstall with the test of line 1220 inverted
AfterInstallInverted(result) == IF result = "ok" THEN "FailPause" ELSE "Mkdir"

\* AfterInstall with a failed install tried again
AfterInstallRetry(result) == IF result = "ok" THEN "Mkdir" ELSE "Install"

\* AfterInstall with the result of the stage ignored
AfterInstallRegardless(result) == "Mkdir"

\* lines 1220-1224: `if not self.install_dependencies(use_ninja)`: pause, return None
AfterInstall(result) == IF result = "ok" THEN "Mkdir" ELSE "FailPause"

\* lines 803-866 and 1219-1224
InstallDependencies ==
    /\ pc = "Install"
    /\ ~ hung
    /\ IF package_manager = "unknown"
       THEN \E proceed \in BOOLEAN :
               /\ stages' = Append(stages, StageEntry("install", ProceedAnyway(proceed)))
               /\ pc' = AfterInstall(ProceedAnyway(proceed))
               /\ UNCHANGED << issued, hung, raised, exit_code >>
       ELSE \E outcome \in ProcessOutcomes :
               LET result == StageResult(outcome, TRUE)
               IN  /\ issued' = Append(issued,
                           [ argv |-> InstallCommand(package_manager, is_root, Mode, use_ninja),
                             cwd |-> cwd ])
                   /\ stages' = Append(stages,
                           StageEntry("install", IF result = "blocked" THEN "running" ELSE result))
                   /\ hung' = (result = "blocked")
                   /\ CASE result \in { "ok", "failed" } ->
                               pc' = AfterInstall(result) /\ UNCHANGED << raised, exit_code >>
                        [] result = "raised" -> Caught("Exception")
                        [] result = "blocked" -> UNCHANGED << pc, raised, exit_code >>
    /\ UNCHANGED << envVars, wizVars, custVars, checkVars, cpu_read, clone_seen, dirs, cwd, start_dir,
                    build_path, cfgVars, interrupted_at >>

\* lines 1226-1245: both directories are made, or mkdir raises and None is returned
MakeDirs ==
    /\ pc = "Mkdir"
    /\ \E made \in { "both", "source_only", "server_dir_only", "nothing" } :
          /\ dirs' = dirs \cup
                CASE made = "both" -> { StartDir \o ServerPath(server_name),
                                        SourcePath(server_name), BuildPath(server_name) }
                  [] made = "source_only" -> { StartDir \o ServerPath(server_name),
                                               SourcePath(server_name) }
                  [] made = "server_dir_only" -> { StartDir \o ServerPath(server_name) }
                  [] made = "nothing" -> { }
          /\ IF made = "both"
             THEN /\ start_dir' = cwd
                  /\ pc' = "Clone"
                  /\ UNCHANGED exit_code
             ELSE /\ start_dir' = start_dir
                  /\ Return(1)
    /\ UNCHANGED << envVars, wizVars, custVars, checkVars, issued, stages, hung, cpu_read, clone_seen,
                    cwd, build_path, cfgVars, raised, interrupted_at >>

\* lines 868-898 and 1249-1252
CloneRepository ==
    /\ pc = "Clone"
    /\ ~ hung
    /\ \E outcome \in ProcessOutcomes, git_marker \in BOOLEAN :
          /\ clone_seen' = << CloneSeen(outcome, run_command(verbose, outcome), git_marker) >>
          /\ TryStage("clone", CloneCommand(Mode), SourcePath(server_name),
                      StageResult(outcome, git_marker), "Configure")
    /\ UNCHANGED << envVars, wizVars, custVars, checkVars, cpu_read, cfgVars >>

\* ConfigureCommand with the mode's default list in place of the list passed in
ConfigureCommandDefault(build_opts) == DefaultBuildOpts

\* lines 911-916: configure_build runs the list it was given
ConfigureCommand(build_opts) == build_opts

\* lines 900-918 and 1254-1257
ConfigureBuild ==
    /\ pc = "Configure"
    /\ ~ hung
    /\ \E outcome \in ProcessOutcomes :
          TryStage("configure", ConfigureCommand(custom_build_opts), BuildPath(server_name),
                   StageResult(outcome, TRUE), "Compile")
    /\ UNCHANGED << envVars, wizVars, custVars, checkVars, cpu_read, clone_seen, cfgVars >>

\* lines 920-950 and 1259-1265
CompileServer ==
    /\ pc = "Compile"
    /\ ~ hung
    /\ \E outcome \in ProcessOutcomes, cpu_count \in CpuCounts :
          /\ use_ninja => cpu_count = 0
          /\ cpu_read' = IF use_ninja THEN << >> ELSE << cpu_count >>
          /\ clone_seen' = clone_seen
          /\ TryStage("compile", CompileCommand(use_ninja, cpu_count), BuildPath(server_name),
                      StageResult(outcome, TRUE), "BuildComplete")
    /\ UNCHANGED << envVars, wizVars, custVars, checkVars, cfgVars >>

----------------------------------------------------------------------------
(* run(): after the build, configure_server *)

\* lines 1284-1294
BuildCompletePause ==
    /\ pc = "BuildComplete"
    /\ pc' = "ConfigChoice"
    /\ UNCHANGED << envVars, wizVars, custVars, checkVars, pipeVars, cfgVars, excVars >>

\* ExitAfterConfig with the value of configure_server taken into account
ExitAfterConfigChecked(config_ok) == IF config_ok THEN 0 ELSE 1

\* lines 1296-1314: the value of configure_server is dropped and run() returns 0
ExitAfterConfig(config_ok) == 0

Settings == Get(BASIC_CONFIG_SETTINGS, selected_mode, << >>)

\* lines 985-1032 and, for "skip", 1299-1314
ConfigChoice ==
    /\ pc = "ConfigChoice"
    /\ \E choice \in { S("1"), S("2"), S("3"), S("4"), S("x") } :
          IF ~ IntRaises(choice) /\ IntOf(choice) \in { 1, 2 }
          THEN IF Settings = << >>
               THEN Return(ExitAfterConfig(FALSE)) /\ UNCHANGED << config_values, setting_idx >>
               ELSE /\ pc' = "BasicConfig"
                    /\ config_values' = << >>
                    /\ setting_idx' = 1
                    /\ UNCHANGED exit_code
          ELSE IF ~ IntRaises(choice) /\ IntOf(choice) = 3
          THEN Return(ExitAfterConfig(TRUE)) /\ UNCHANGED << config_values, setting_idx >>
          ELSE UNCHANGED << pc, exit_code, config_values, setting_idx >>
    /\ UNCHANGED << envVars, wizVars, custVars, checkVars, pipeVars, cfg_file, save_ok,
                    raised, interrupted_at >>

\* lines 1041-1085: one answer to the prompt of settings[setting_idx]
BasicSetting(every_answer) ==
    /\ pc = "BasicConfig"
    /\ \E value \in (IF every_answer THEN AllConfigAnswers(Settings[setting_idx])
                                    ELSE ConfigAnswers(Settings[setting_idx])) :
          IF AnswerAccepted(Settings[setting_idx].key, value)
          THEN /\ config_values' = DictPut(config_values, Settings[setting_idx].key, value)
               /\ setting_idx' = setting_idx + 1
               /\ pc' = IF setting_idx = Len(Settings) THEN "ConfigConfirm" ELSE "BasicConfig"
          ELSE UNCHANGED << config_values, setting_idx, pc >>
    /\ UNCHANGED << envVars, wizVars, custVars, checkVars, pipeVars, cfg_file, save_ok, excVars >>

\* lines 1127-1155: the file left behind and the value returned
save_config_file(mode_name, values, old_file, write, written) ==
    CASE write = "ok" ->
             [ file |-> ConfigFileLines(mode_name, values), ok |-> "yes" ]
      [] write = "open_fails" ->
             [ file |-> old_file, ok |-> "no" ]
      [] write = "write_fails" ->
             [ file |-> SubSeq(ConfigFileLines(mode_name, values), 1, written), ok |-> "no" ]

\* lines 1100-1113 and 1299-1314
ConfigConfirm ==
    /\ pc = "ConfigConfirm"
    /\ \E correct \in BOOLEAN :
          IF correct
          THEN \E write \in { "ok", "open_fails", "write_fails" },
                  written \in 0..(Len(ConfigHeader(selected_mode)) + Len(config_values) - 1) :
                  LET saved == save_config_file(selected_mode, config_values, cfg_file,
                                                write, written)
                  IN  /\ cfg_file' = saved.file
                      /\ save_ok' = saved.ok
                      /\ Return(ExitAfterConfig(saved.ok = "yes"))
                      /\ UNCHANGED << config_values, setting_idx >>
          ELSE /\ config_values' = << >>
               /\ setting_idx' = 1
               /\ pc' = "BasicConfig"
               /\ UNCHANGED << cfg_file, save_ok, exit_code >>
    /\ UNCHANGED << envVars, wizVars, custVars, checkVars, pipeVars, raised, interrupted_at >>

----------------------------------------------------------------------------
(* A user interrupt (KeyboardInterrupt) *)

InTry == pc \in { "Clone", "Configure", "Compile" }

\* Raised wherever run() is: outside run()'s try it leaves run() (line 1279);
\* ensure_sudo's last handler turns it into "return False" (lines 349-351);
\* inside build_server's try block the finally block runs first (1267-1270);
\* everywhere else it reaches run()'s handler (lines 1323-1327)
Interrupt ==
    /\ pc \notin { "exited", "propagated" }
    /\ interrupted_at' = pc
    /\ hung' = FALSE
    /\ CASE pc = "header" ->
                /\ pc' = "propagated"
                /\ raised' = "KeyboardInterrupt"
                /\ UNCHANGED << exit_code, sudo_ok, cwd >>
         [] pc = "SudoAuth" ->
                /\ sudo_ok' = "no"
                /\ pc' = "FailPause"
                /\ UNCHANGED << raised, exit_code, cwd >>
         [] OTHER ->
                /\ Caught("KeyboardInterrupt")
                /\ cwd' = IF InTry THEN FinallyChdir(start_dir, BuildPath(server_name)) ELSE cwd
                /\ UNCHANGED sudo_ok
    /\ UNCHANGED << envVars, wizVars, custVars, verbose, disk_ok, issued, stages, cpu_read, clone_seen,
                    dirs, start_dir, build_path, cfgVars >>

\* the places where run() waits for a line of input (input(), Prompt.ask,
\* Confirm.ask)
PromptPlaces ==
    { "NameEntry", "NameRetry", "ModeSelection", "ModeRetry", "CustomizeAsk",
      "CustomizeLoop", "CustomizePause", "NoChangesPause", "VerboseToggle", "FailPause",
      "StartPause", "BuildComplete", "ConfigChoice", "BasicConfig", "ConfigConfirm" }

\* Standard input ends at a prompt: input() raises EOFError, which no step
\* handles, so it reaches run()'s `except Exception` (lines 1328-1333)
EndOfInput ==
    /\ \/ pc \in PromptPlaces
       \/ pc = "Install" /\ package_manager = "unknown"
    /\ Caught("Exception")
    /\ UNCHANGED << envVars, wizVars, custVars, checkVars, pipeVars, cfgVars, interrupted_at >>

----------------------------------------------------------------------------
(* Specifications *)

\* a whole run
Next ==
    \/ ShowHeader
    \/ GetServerName(WizardNames)
    \/ NameRetry
    \/ SelectGameMode
    \/ ModeRetry
    \/ CustomizeAsk
    \/ CustomizeCommand(WizardInputs(Available), MaxCmds)
    \/ CustomizePause
    \/ NoChangesPause
    \/ VerboseToggle
    \/ CheckDiskSpace
    \/ EnsureSudo
    \/ SudoAuth
    \/ FailPause
    \/ StartPause
    \/ InstallDependencies
    \/ MakeDirs
    \/ CloneRepository
    \/ ConfigureBuild
    \/ CompileServer
    \/ BuildCompletePause
    \/ ConfigChoice
    \/ BasicSetting(FALSE)
    \/ ConfigConfirm
    \/ Interrupt
    \/ EndOfInput

Spec == Init /\ [][Next]_vars

\* validate_server_name over the candidate names: the folder-name prompt alone
NextName ==
    \/ ShowHeader
    \/ GetServerName(NameCandidates)
    \/ NameRetry

SpecName == Init /\ [][NextName]_vars

\* customize_build_options with every kind of line: a run that has reached the
\* customization question
InitCustomize ==
    /\ pc = "CustomizeAsk"
    /\ is_root = FALSE
    /\ package_manager = "apt-get"
    /\ name_input = myserver
    /\ server_name = myserver
    /\ selected_mode \in ModeNames
    /\ mode_choice \in { c \in ModeChoices : select_game_mode(c) = selected_mode }
    /\ current_options = NoOptions
    /\ use_ninja_loop = FALSE
    /\ ncmds = 0
    /\ last_cmd = NoCmd
    /\ custom_build_opts = << >>
    /\ use_ninja = FALSE
    /\ verbose = FALSE
    /\ disk_ok = "unchecked"
    /\ sudo_ok = "unasked"
    /\ issued = << >>
    /\ stages = << >>
    /\ hung = FALSE
    /\ cpu_read = << >>
    /\ clone_seen = << >>
    /\ dirs = { }
    /\ cwd = StartDir
    /\ start_dir = NoPath
    /\ build_path = NoPath
    /\ config_values = << >>
    /\ setting_idx = 0
    /\ cfg_file = NoFile
    /\ save_ok = "none"
    /\ raised = "none"
    /\ interrupted_at = "nowhere"
    /\ exit_code = NoExit

NextCustomize ==
    \/ CustomizeAsk
    \/ CustomizeCommand(AllInputs(Available), MaxDeepCmds)
    \/ CustomizePause
    \/ NoChangesPause

SpecCustomize == InitCustomize /\ [][NextCustomize]_vars

\* configure_server with every kind of answer: a run whose build has just
\* succeeded with the default options
InitConfig ==
    /\ pc = "BuildComplete"
    /\ is_root = FALSE
    /\ package_manager = "apt-get"
    /\ name_input = myserver
    /\ server_name = myserver
    /\ selected_mode \in ModeNames
    /\ mode_choice \in { c \in ModeChoices : select_game_mode(c) = selected_mode }
    /\ current_options = NoOptions
    /\ use_ninja_loop = FALSE
    /\ ncmds = 0
    /\ last_cmd = NoCmd
    /\ custom_build_opts = DefaultBuildOpts
    /\ use_ninja = FALSE
    /\ verbose = FALSE
    /\ disk_ok = "enough"
    /\ sudo_ok = "cached"
    /\ issued = << [ argv |-> InstallCommand("apt-get", FALSE, Mode, FALSE), cwd |-> StartDir ],
                   [ argv |-> CloneCommand(Mode), cwd |-> SourcePath(myserver) ],
                   [ argv |-> DefaultBuildOpts, cwd |-> BuildPath(myserver) ],
                   [ argv |-> CompileCommand(FALSE, 16), cwd |-> BuildPath(myserver) ] >>
    /\ stages = << StageEntry("install", "ok"), StageEntry("clone", "ok"),
                   StageEntry("configure", "ok"), StageEntry("compile", "ok") >>
    /\ hung = FALSE
    /\ cpu_read = << 16 >>
    /\ clone_seen = << CloneSeen("exit0", "ok", TRUE) >>
    /\ dirs = { StartDir \o ServerPath(myserver), SourcePath(myserver), BuildPath(myserver) }
    /\ cwd = StartDir
    /\ start_dir = StartDir
    /\ build_path = BuildPath(myserver)
    /\ config_values = << >>
    /\ setting_idx = 0
    /\ cfg_file = NoFile
    /\ save_ok = "none"
    /\ raised = "none"
    /\ interrupted_at = "nowhere"
    /\ exit_code = NoExit

NextConfig ==
    \/ BuildCompletePause
    \/ ConfigChoice
    \/ BasicSetting(TRUE)
    \/ ConfigConfirm

SpecConfig == InitConfig /\ [][NextConfig]_vars

----------------------------------------------------------------------------
(* Properties of validate_server_name (specification SpecName) *)

\* the names the documented rule turns away: a "/", a "\" or ".." inside,
\* a length outside 1..64, or a character outside A-Z a-z 0-9 _ -
NameShouldBeRejected(n) ==
    \/ Contains(n, << "/" >>)
    \/ Contains(n, << "\\" >>)
    \/ Contains(n, << ".", "." >>)
    \/ Len(n) < 1
    \/ Len(n) > 64
    \/ \E i \in 1..Len(n) : n[i] \notin LowerLetters \cup UpperLetters \cup Digits \cup { "_", "-" }

\* C1: validate_server_name rejects every name that holds "/", "\" or "..",
\* whose length is outside 1..64 or that has a character outside
\* [A-Za-z0-9_-], and accepts every other name.
C1_NameValidation ==
    /\ pc = "NameRetry" => NameShouldBeRejected(name_input)
    /\ pc = "ModeSelection" => ~ NameShouldBeRejected(name_input)

----------------------------------------------------------------------------
(* Properties of build_server and run (specification Spec) *)

StageOrder == << "install", "clone", "configure", "compile" >>

\* C2: the stages run in the order install, clone, configure, compile, and a
\* stage is run only after every earlier stage has succeeded; after a failed
\* configure, compile is never invoked.
C2_StageOrder ==
    /\ Len(stages) <= Len(StageOrder)
    /\ \A i \in 1..Len(stages) : stages[i].stage = StageOrder[i]
    /\ \A i \in 1..(Len(stages) - 1) : stages[i].result = "ok"

\* configure has failed and run() has ended without compile
C2_Witness ==
    /\ pc = "exited"
    /\ Len(stages) = 3
    /\ stages[3] = StageEntry("configure", "failed")

\* C3: whenever build_server has ended, by success, failure, exception or
\* interrupt, the working directory is the one it had before the pipeline
\* started.
C3_CwdRestored ==
    pc \in { "exited", "BuildComplete", "ConfigChoice", "BasicConfig", "ConfigConfirm" }
        => cwd = StartDir

\* a stage inside the try block raised and run() has ended
C3_Witness ==
    /\ pc = "exited"
    /\ raised = "Exception"
    /\ Len(stages) >= 2
    /\ stages[Len(stages)].result = "raised"
    /\ cwd = StartDir

\* C4 as stated: run() returns 0 exactly when build_server produced a build
\* path, 1 when it produced none or an unexpected exception occurred, 130 on
\* a user interrupt, and nothing else.
C4_ExitCodesAsStated ==
    pc = "exited" =>
        /\ exit_code \in { 0, 1, 130 }
        /\ exit_code = 0 <=> build_path # NoPath
        /\ raised = "KeyboardInterrupt" => exit_code = 130
        /\ (build_path = NoPath /\ raised # "KeyboardInterrupt") => exit_code = 1

\* C4, amended: run() returns 0 exactly when build_server produced a build
\* path and no interrupt or exception reached run() afterwards, 130 exactly
\* when an interrupt reached run()'s handler, 1 in every other case, and
\* nothing else.
C4_ExitCodes ==
    pc = "exited" =>
        /\ exit_code \in { 0, 1, 130 }
        /\ exit_code = 0 <=> (build_path # NoPath /\ raised = "none")
        /\ exit_code = 130 <=> raised = "KeyboardInterrupt"
        /\ (build_path = NoPath /\ raised # "KeyboardInterrupt") => exit_code = 1

\* the build produced its path and an interrupt during the configuration
\* step ended the run
C4_Witness ==
    /\ pc = "exited"
    /\ build_path # NoPath
    /\ interrupted_at \in { "BuildComplete", "ConfigChoice", "BasicConfig", "ConfigConfirm" }
    /\ exit_code = 130

\* C5: an interrupt at a prompt, during a subprocess or anywhere in the
\* pipeline ends the run with exit code 130.
C5_InterruptExits130 ==
    (pc = "exited" /\ interrupted_at \notin { "nowhere", "header" }) => exit_code = 130

\* the expected commands of the default Teeworlds build on an APT host
DefaultTeeworldsCommands(cpu_count) ==
    << [ argv |-> << S("sudo"), S("apt-get"), S("install"), S("-y"),
                     S("build-essential"), S("cmake"), S("git"), S("python3"),
                     S("libfreetype6-dev"), S("libsdl2-dev"),
                     S("libpnglite-dev"), S("libwavpack-dev") >>,
         cwd |-> StartDir ],
       [ argv |-> << S("git"), S("clone"), S("--recursive"),
                     S("https://github.com/teeworlds/teeworlds.git"), S(".") >>,
         cwd |-> StartDir \o << myserver, S("source") >> ],
       [ argv |-> << S("cmake"), S("../source/"),
                     << "-D", "CLIENT", "=", "OFF" >>, << "-D", "SERVER", "=", "ON" >> >>,
         cwd |-> StartDir \o << myserver, S("server") >> ],
       [ argv |-> << S("make"),
                     << "-j", ToString(IF cpu_count = 0 THEN 2
                                       ELSE IF cpu_count < 16 THEN cpu_count ELSE 16) >> >>,
         cwd |-> StartDir \o << myserver, S("server") >> ] >>

DefaultTeeworldsRun ==
    /\ server_name = myserver
    /\ selected_mode = "Teeworlds"
    /\ package_manager = "apt-get"
    /\ ~ is_root
    /\ current_options \in { NoOptions, InitialOptions(AVAILABLE_BUILD_OPTIONS["Teeworlds"]) }

\* C6: for the name myserver, mode Teeworlds, no customization, an APT host
\* and a non-root user, the commands issued are, in order, the sudo apt-get
\* install of the base and Teeworlds packages, the recursive git clone in
\* myserver/source, the default cmake command in myserver/server and
\* make -j<min(cpus,16)> in myserver/server; a completed build issued all four.
C6_DefaultRunCommands ==
    DefaultTeeworldsRun =>
        \E cpu_count \in CpuCounts :
            /\ Len(issued) <= 4
            /\ issued = SubSeq(DefaultTeeworldsCommands(cpu_count), 1, Len(issued))
            /\ build_path # NoPath => Len(issued) = 4

\* the default run has built the server with all four commands
C6_Witness ==
    /\ DefaultTeeworldsRun
    /\ pc = "exited"
    /\ exit_code = 0
    /\ Len(issued) = 4
    /\ issued[4].argv = << S("make"), << "-j", "16" >> >>

NinjaTurnedOn == current_options # NoOptions /\ current_options[GNinja] = S("ON")

CompileInvoked == stages # << >> /\ stages[Len(stages)].stage = "compile"

\* C7: the compile stage runs `ninja` exactly when the Ninja generator option
\* was turned on, and otherwise `make -j<N>` with N the detected CPU count
\* capped at 16, 2 when no count is detected.
C7_CompileCommand ==
    CompileInvoked =>
        LET cmd == issued[Len(issued)] IN
        /\ cmd.cwd = StartDir \o << server_name, S("server") >>
        /\ IF NinjaTurnedOn
           THEN cmd.argv = << S("ninja") >> /\ cpu_read = << >>
           ELSE /\ Len(cpu_read) = 1
                /\ \E n \in 1..16 :
                      /\ cmd.argv = << S("make"), << "-j", ToString(n) >> >>
                      /\ n = IF cpu_read[1] = 0 THEN 2
                             ELSE IF cpu_read[1] > 16 THEN 16 ELSE cpu_read[1]

\* make was run on a host with more than 16 CPUs
C7_Witness ==
    /\ CompileInvoked
    /\ ~ NinjaTurnedOn
    /\ cpu_read # << >>
    /\ cpu_read[1] > 16
    /\ issued[Len(issued)].argv = << S("make"), << "-j", "16" >> >>

----------------------------------------------------------------------------
(* Properties of customize_build_options (specification SpecCustomize) *)

AllAtDefault ==
    \A i \in 1..Len(Available) :
        current_options[Available[i].name] = Available[i].current_value

\* C8: when customization is declined, or ends with every option at its
\* default value, the returned argument list is the mode's default list and
\* use_ninja is false.
C8_NoChangeReturnsDefaults ==
    (/\ pc \in { "NoChangesPause", "VerboseToggle" }
     /\ current_options = NoOptions \/ AllAtDefault)
        => /\ custom_build_opts = << S("cmake"), S("../source/"),
                                     << "-D", "CLIENT", "=", "OFF" >>,
                                     << "-D", "SERVER", "=", "ON" >> >>
           /\ custom_build_opts = Mode.build_opts
           /\ use_ninja = FALSE

\* an option was changed and then set back, and the loop has ended
C8_Witness ==
    /\ pc = "NoChangesPause"
    /\ ncmds >= 2
    /\ last_cmd.outcome = "set"
    /\ last_cmd.before # current_options
    /\ AllAtDefault
    /\ custom_build_opts = Mode.build_opts

TruthySpellings == { "ON", "on", "yes", "TRUE", "1" }
FalsySpellings == { "OFF", "off", "no", "false", "0" }

\* the effect the rule prescribes for `value` given to boolean option i
BooleanEffect(i, value) ==
    IF value \in TruthySpellings
    THEN /\ current_options = [ last_cmd.before EXCEPT ![Available[i].name] = S("ON") ]
         /\ last_cmd.outcome = "set"
    ELSE IF value \in FalsySpellings
    THEN /\ current_options = [ last_cmd.before EXCEPT ![Available[i].name] = S("OFF") ]
         /\ last_cmd.outcome = "set"
    ELSE /\ current_options = last_cmd.before
         /\ last_cmd.outcome = "invalid_boolean"

\* C9: for a boolean option chosen by index or by name, ON/YES/TRUE/1 in any
\* letter case set it to ON, OFF/NO/FALSE/0 set it to OFF, and any other
\* value is rejected with the prior value kept.
C9_BooleanNormalization ==
    pc \in { "CustomizeLoop", "CustomizePause" } =>
        \A i \in 1..Len(Available), value \in ValuePieces :
            (/\ Available[i].option_type = "boolean"
             /\ last_cmd.input \in { << ToString(i), "=", value >>,
                                     Available[i].name \o << "=", value >> })
                => /\ BooleanEffect(i, value)
                   /\ use_ninja_loop = last_cmd.ninja_before

\* -DCLIENT was set to ON, then -DCLIENT=maybe was rejected
C9_Witness ==
    /\ pc = "CustomizePause"
    /\ last_cmd.input = << "-D", "CLIENT", "=", "maybe" >>
    /\ last_cmd.outcome = "invalid_boolean"
    /\ current_options[<< "-D", "CLIENT" >>] = S("ON")

----------------------------------------------------------------------------
(* Properties of _save_config_file (specification SpecConfig) *)

UnquotedKeys == { "sv_port", "sv_max_clients" }

\* C10: after a successful save the file holds, after the comment header, one
\* line per collected setting in the order of the settings, `key value` for
\* sv_port and sv_max_clients and `key "value"` for every other key.
C10_ConfigFile ==
    save_ok = "yes" =>
        /\ Len(config_values) = Len(Settings)
        /\ Len(cfg_file) = 4 + Len(Settings)
        /\ \A i \in 1..3 : cfg_file[i] # << >> /\ cfg_file[i][1] = "//"
        /\ cfg_file[4] = << >>
        /\ \A i \in 1..Len(Settings) :
              /\ config_values[i].key = Settings[i].key
              /\ cfg_file[4 + i] =
                    IF Settings[i].key \in UnquotedKeys
                    THEN << Settings[i].key, " ", config_values[i].value >>
                    ELSE << Settings[i].key, " ", "\"", config_values[i].value, "\"" >>

\* the file was saved with the name X and the port 8303
C10_Witness ==
    /\ save_ok = "yes"
    /\ pc = "exited"
    /\ cfg_file[5] = << "sv_name", " ", "\"", "X", "\"" >>
    /\ cfg_file[6] = << "sv_port", " ", "8303" >>

----------------------------------------------------------------------------
(* Properties of the rebuilt CMake command (specification SpecCustomize) *)

\* the entry of an option whose value differs from its default
ChangedEntry(opt) ==
    IF opt.option_type = "generator"
    THEN opt.name
    ELSE opt.name \o << "=" >> \o current_options[opt.name]

\* one entry per changed option, in table order
RECURSIVE ChangedEntriesFrom(_)
ChangedEntriesFrom(i) ==
    IF i > Len(Available) THEN << >>
    ELSE (IF current_options[Available[i].name] # Available[i].current_value
          THEN << ChangedEntry(Available[i]) >> ELSE << >>) \o ChangedEntriesFrom(i + 1)

CustomizationChanged ==
    /\ pc = "VerboseToggle"
    /\ current_options # NoOptions
    /\ ~ AllAtDefault

Mentions(entries, flag) == \E k \in 1..Len(entries) : Contains(entries[k], flag)

\* C11 as stated: after a customization that changed an option, the argument
\* list is cmake, ../source/, -DCLIENT=OFF, -DSERVER=ON followed, in table
\* order, by one entry per changed option.
C11_DefaultsThenChangesAsStated ==
    CustomizationChanged =>
        custom_build_opts =
            << S("cmake"), S("../source/"),
               << "-D", "CLIENT", "=", "OFF" >>, << "-D", "SERVER", "=", "ON" >> >>
            \o ChangedEntriesFrom(1)

\* C11, amended: after a customization that changed an option, the argument
\* list is cmake, ../source/, then in table order one entry per changed
\* option, then -DCLIENT=OFF unless an entry mentions -DCLIENT, then
\* -DSERVER=ON unless an entry mentions -DSERVER.
C11_ChangesThenDefaults ==
    CustomizationChanged =>
        custom_build_opts =
            << S("cmake"), S("../source/") >> \o ChangedEntriesFrom(1)
            \o (IF Mentions(ChangedEntriesFrom(1), << "-D", "CLIENT" >>)
                THEN << >> ELSE << << "-D", "CLIENT", "=", "OFF" >> >>)
            \o (IF Mentions(ChangedEntriesFrom(1), << "-D", "SERVER" >>)
                THEN << >> ELSE << << "-D", "SERVER", "=", "ON" >> >>)

\* -DTOOLS and the Ninja generator were switched on
C11_Witness ==
    /\ CustomizationChanged
    /\ use_ninja
    /\ custom_build_opts = << S("cmake"), S("../source/"),
                              << "-D", "TOOLS", "=", "ON" >>, GNinja,
                              << "-D", "CLIENT", "=", "OFF" >>,
                              << "-D", "SERVER", "=", "ON" >> >>

----------------------------------------------------------------------------
(* Properties of the install stage (specification Spec) *)

NinjaPackageName ==
    ( "apt-get" :> "ninja-build" ) @@ ( "dnf" :> "ninja-build" ) @@
    ( "yum" :> "ninja-build" ) @@ ( "pacman" :> "ninja" ) @@ ( "zypper" :> "ninja" )

\* base packages, then the mode's packages, then the ninja package if selected
ExpectedPackages ==
    Split(BASE_DEPS[package_manager]) \o Split(Mode.dependencies[package_manager])
    \o (IF use_ninja THEN << S(NinjaPackageName[package_manager]) >> ELSE << >>)

SudoPrefix == IF is_root THEN << >> ELSE << S("sudo") >>

InstallIssued == stages # << >> /\ package_manager # "unknown"

\* C12 as stated: for every detected package manager the install stage issues
\* one command `<pm> install -y <packages...>`, with sudo in front exactly
\* when not root, the packages being base, mode, then ninja iff selected.
C12_InstallShapeAsStated ==
    InstallIssued =>
        /\ Len(issued) = Len(stages)
        /\ issued[1].argv = SudoPrefix \o << S(package_manager), S("install"), S("-y") >>
                            \o ExpectedPackages

\* C12, amended: the command is `<pm> install -y <packages...>` for APT, DNF,
\* YUM and ZYPPER and `pacman -S --noconfirm <packages...>` for PACMAN, with
\* sudo in front exactly when not root, the packages being base, mode, then
\* ninja iff selected.
C12_InstallShape ==
    InstallIssued =>
        /\ Len(issued) = Len(stages)
        /\ issued[1].argv =
              SudoPrefix
              \o (IF package_manager = "pacman"
                  THEN << S("pacman"), S("-S"), S("--noconfirm") >>
                  ELSE << S(package_manager), S("install"), S("-y") >>)
              \o ExpectedPackages

\* a non-root pacman host installing for a Ninja build
C12_Witness ==
    /\ InstallIssued
    /\ package_manager = "pacman"
    /\ ~ is_root
    /\ use_ninja
    /\ SubSeq(issued[1].argv, 1, 4) = << S("sudo"), S("pacman"), S("-S"), S("--noconfirm") >>
    /\ issued[1].argv[Len(issued[1].argv)] = S("ninja")

----------------------------------------------------------------------------
(* Properties of run_command (specification Spec) *)

\* C13: every run_command invocation, verbose or quiet, is cut off by the
\* timeout and reported as a failure, so no stage is ever left waiting on a
\* process that does not end.
C13_TimeoutAlways ==
    /\ ~ hung
    /\ \A i \in 1..Len(stages) : stages[i].result # "running"

\* C14: in verbose and in quiet mode an exception raised while launching the
\* process is returned as a failure of the stage and never leaves
\* run_command.
C14_LaunchErrorCaptured ==
    \A i \in 1..Len(stages) : stages[i].result # "raised"

----------------------------------------------------------------------------
(* Properties of the clone stage (specification Spec) *)

\* the logged result of the clone stage
CloneResult == (CHOOSE i \in 1..Len(stages) : stages[i].stage = "clone")

\* C15: the clone stage succeeds exactly when git reported success and the
\* .git marker was then found in the source directory; after exit code zero
\* with the marker absent the stage has failed and configure and compile do
\* not run.
C15_CloneNeedsMarker ==
    clone_seen # << >> =>
        /\ \E i \in 1..Len(stages) : stages[i].stage = "clone"
        /\ stages[CloneResult].result = "ok"
              <=> (clone_seen[1].exit = "exit0" /\ clone_seen[1].marker = "present")
        /\ (clone_seen[1].exit = "exit0" /\ clone_seen[1].marker = "absent")
              => /\ stages[CloneResult].result = "failed"
                 /\ CloneResult = Len(stages)
                 /\ build_path = NoPath
                 /\ pc = "exited"

\* git ended with code zero, the marker was missing, and the run has ended
C15_Witness ==
    /\ clone_seen = << [ exit |-> "exit0", marker |-> "absent" ] >>
    /\ stages[Len(stages)] = StageEntry("clone", "failed")
    /\ pc = "exited"
    /\ exit_code = 1

----------------------------------------------------------------------------
(* Properties of the checks before the pipeline (specification Spec) *)

\* C16: no stage is started unless the disk-space check established at least
\* 2000 MB free and the process is root or obtained sudo; when either is not
\* established build_server ends with no build path.
C16_ChecksBeforeStages ==
    /\ stages # << >> =>
          /\ disk_ok = "enough"
          /\ sudo_ok \in { "root", "cached", "granted" }
    /\ (pc = "exited" /\ (disk_ok \in { "low", "unknown" } \/ sudo_ok = "no")) =>
          build_path = NoPath

----------------------------------------------------------------------------
(* Properties of the install stage without a package manager              *)
(* (specification Spec)                                                    *)

IsInstallCommand(argv) ==
    \E k \in 1..Len(argv) : argv[k] \in { S("install"), S("-S") }

\* C17: with the package manager UNKNOWN the install stage runs no command
\* and asks whether to proceed; declined, no later stage runs, no build path
\* is produced and run() returns 1; accepted, the stage has succeeded and the
\* next stage is clone.
C17_UnknownManager ==
    (package_manager = "unknown" /\ stages # << >>) =>
        /\ stages[1].stage = "install"
        /\ stages[1].result \in { "ok", "failed" }
        /\ Len(issued) = Len(stages) - 1
        /\ \A k \in 1..Len(issued) : ~ IsInstallCommand(issued[k].argv)
        /\ stages[1].result = "failed" =>
              /\ Len(stages) = 1
              /\ build_path = NoPath
              /\ pc \in { "FailPause", "exited" }
              /\ (pc = "exited" /\ raised # "KeyboardInterrupt") => exit_code = 1
        /\ stages[1].result = "ok" =>
              /\ pc \notin { "FailPause", "Install" }
              /\ Len(stages) >= 2 => /\ stages[2].stage = "clone"
                                     /\ issued[1].argv[1] = S("git")

\* the user declined and the run ended with code 1
C17_WitnessDeclined ==
    /\ package_manager = "unknown"
    /\ stages = << StageEntry("install", "failed") >>
    /\ issued = << >>
    /\ pc = "exited"
    /\ exit_code = 1

----------------------------------------------------------------------------
(* Properties of the numeric settings (specification SpecConfig) *)

\* the values of the decimal numerals
DecimalValue ==
    ( "0" :> 0 ) @@ ( "1" :> 1 ) @@ ( "16" :> 16 ) @@ ( "64" :> 64 ) @@ ( "80" :> 80 ) @@
    ( "256" :> 256 ) @@ ( "257" :> 257 ) @@ ( "1023" :> 1023 ) @@ ( "1024" :> 1024 ) @@
    ( "8303" :> 8303 ) @@ ( "65535" :> 65535 ) @@ ( "65536" :> 65536 )

IntegerWithin(value, low, high) ==
    value \in DOMAIN DecimalValue /\ low <= DecimalValue[value] /\ DecimalValue[value] <= high

\* C18: a recorded or written sv_port is an integer in 1024..65535 and a
\* recorded or written sv_max_clients is an integer in 1..256.
C18_NumericSettingsInRange ==
    /\ \A i \in 1..Len(config_values) :
          /\ config_values[i].key = "sv_port"
                => IntegerWithin(config_values[i].value, 1024, 65535)
          /\ config_values[i].key = "sv_max_clients"
                => IntegerWithin(config_values[i].value, 1, 256)
    /\ cfg_file # NoFile =>
          \A i \in 1..Len(cfg_file) :
             /\ (Len(cfg_file[i]) = 3 /\ cfg_file[i][1] = "sv_port")
                   => IntegerWithin(cfg_file[i][3], 1024, 65535)
             /\ (Len(cfg_file[i]) = 3 /\ cfg_file[i][1] = "sv_max_clients")
                   => IntegerWithin(cfg_file[i][3], 1, 256)

----------------------------------------------------------------------------
(* Properties of the configuration step (specification Spec) *)

ConfigPlaces == { "BuildComplete", "ConfigChoice", "BasicConfig", "ConfigConfirm" }

BuildStands ==
    /\ build_path = StartDir \o << server_name, S("server") >>
    /\ Len(stages) = 4
    /\ \A i \in 1..4 : stages[i] = [ stage |-> StageOrder[i], result |-> "ok" ]
    /\ build_path \in dirs

\* C19: the configuration step is reached only after build_server returned a
\* build path; whatever is chosen there and whether or not the file could be
\* written, the four stages stay as they ended and run() returns 0.
C19_ConfigKeepsResult ==
    /\ pc \in ConfigPlaces => BuildStands
    /\ (config_values # << >> \/ save_ok # "none" \/ cfg_file # NoFile) => BuildStands
    /\ build_path # NoPath => BuildStands
    /\ (pc = "exited" /\ build_path # NoPath /\ raised = "none") => exit_code = 0

\* the file could not be written and run() returned 0
C19_Witness ==
    /\ pc = "exited"
    /\ save_ok = "no"
    /\ BuildStands
    /\ exit_code = 0
----------------------------------------------------------------------------
(* C20 (specification Spec) *)

\* the wizard step a place of run() belongs to: 0 before the first prompt,
\* 1..5 for the five steps, 6 for everything after the build was started or
\* refused
WizardStep(place) ==
    CASE place = "header" -> 0
      [] place \in { "NameEntry", "NameRetry" } -> 1
      [] place \in { "ModeSelection", "ModeRetry" } -> 2
      [] place \in { "CustomizeAsk", "CustomizeLoop", "CustomizePause", "NoChangesPause" } -> 3
      [] place = "VerboseToggle" -> 4
      [] place \in { "DiskCheck", "EnsureSudo", "SudoAuth", "StartPause" } -> 5
      [] OTHER -> 6

\* a mode index the wizard may accept: a numeral between 1 and the number of modes
ModeChoiceInRange(c) ==
    \E p \in DecimalPieces :
        c = << p >> /\ 1 <= PieceInt(p) /\ PieceInt(p) <= Len(GAME_MODES)

RunLeft(place) == place \in { "exited", "propagated" }

C20_Step ==
    /\ ~ RunLeft(pc') =>
          IF WizardStep(pc) < 6
          THEN WizardStep(pc') \in { WizardStep(pc), WizardStep(pc) + 1 }
          ELSE WizardStep(pc') = 6
    /\ (pc = "NameEntry" /\ ~ RunLeft(pc')) =>
          IF NameShouldBeRejected(name_input')
          THEN pc' = "NameRetry" /\ server_name' = server_name
          ELSE pc' = "ModeSelection" /\ server_name' = name_input'
    /\ (pc = "NameRetry" /\ ~ RunLeft(pc')) => pc' = "NameEntry"
    /\ (pc = "ModeSelection" /\ ~ RunLeft(pc')) =>
          IF ModeChoiceInRange(mode_choice')
          THEN pc' = "CustomizeAsk" /\ selected_mode' = GAME_MODES[IntOf(mode_choice')].name
          ELSE pc' = "ModeRetry" /\ selected_mode' = selected_mode
    /\ (pc = "ModeRetry" /\ ~ RunLeft(pc')) => pc' = "ModeSelection"
    /\ (WizardStep(pc) \in { 1, 2 } /\ RunLeft(pc')) =>
          /\ raised' # "none"
          /\ name_input' = name_input
          /\ mode_choice' = mode_choice

C20_ValuesValid ==
    /\ (WizardStep(pc) \in 2..5) => ~ NameShouldBeRejected(server_name)
    /\ (WizardStep(pc) \in 3..5) => selected_mode \in ModeNames
    /\ server_name # << >> => ~ NameShouldBeRejected(server_name)
    /\ selected_mode # NoMode =>
          /\ ModeChoiceInRange(mode_choice)
          /\ selected_mode = GAME_MODES[IntOf(mode_choice)].name

\* C20: the wizard goes through name entry, mode selection, option
\* customization, the verbose question and confirmation in that order, one
\* step at a time and never backwards; an invalid name or an invalid mode
\* index (not a numeral, or out of range) leads to the same prompt again with
\* nothing recorded; the run is left from these two steps only by an
\* exception (an interrupt or the end of input), never by an answer; and the
\* name and mode carried into the later steps are valid ones
C20_WizardOrder == [] C20_ValuesValid /\ [][C20_Step]_vars

\* the mode prompt is shown again after an index that is out of range, and
\* no mode has been recorded
C20_Witness ==
    /\ pc = "ModeSelection"
    /\ mode_choice = S("4")
    /\ selected_mode = NoMode
    /\ server_name = myserver
----------------------------------------------------------------------------
(* Properties of the pipeline as a whole (specification Spec) *)

\* the stage an external command belongs to
CommandStage(argv) ==
    CASE IsInstallCommand(argv) -> "install"
      [] argv[1] = S("git") -> "clone"
      [] argv[1] = S("cmake") -> "configure"
      [] argv[1] \in { S("make"), S("ninja") } -> "compile"
      [] OTHER -> "other"

\* C21: each of the install, clone, configure and compile stages is entered
\* at most once and its command is started at most once; once a stage has not
\* succeeded no further stage is entered and no further command is started.
C21_NoRetry ==
    /\ \A i, j \in 1..Len(stages) : stages[i].stage = stages[j].stage => i = j
    /\ \A i, j \in 1..Len(issued) :
          CommandStage(issued[i].argv) = CommandStage(issued[j].argv) => i = j
    /\ \A i \in 1..Len(issued) :
          \E k \in 1..Len(stages) :
             /\ stages[k].stage = CommandStage(issued[i].argv)
             /\ \A j \in 1..Len(issued) : j > i => \E m \in (k + 1)..Len(stages) :
                                                     stages[m].stage = CommandStage(issued[j].argv)
    /\ \A i \in 1..Len(stages) : stages[i].result # "ok" => i = Len(stages)
    /\ Len(issued) <= Len(stages)

\* the configure stage failed and the run ended with three commands started
C21_Witness ==
    /\ pc = "exited"
    /\ Len(stages) = 3
    /\ stages[3] = StageEntry("configure", "failed")
    /\ Len(issued) = 3
    /\ issued[3].argv[1] = S("cmake")
    /\ exit_code = 1
----------------------------------------------------------------------------
(* Properties of the selections carried into the pipeline (specification Spec) *)

PipelinePlaces == { "Install", "Mkdir", "Clone", "Configure", "Compile" }

PipelineStarted == pc \in PipelinePlaces \/ stages # << >>

C22_Selected ==
    /\ PipelineStarted =>
          /\ ~ NameShouldBeRejected(server_name)
          /\ \E i \in 1..Len(GAME_MODES) : GAME_MODES[i].name = selected_mode
          /\ Len(custom_build_opts) >= 2
    /\ \A i, j \in 1..Len(issued) :
          (issued[i].argv[1] = S("cmake") /\ issued[j].argv[1] = S("cmake")) => i = j
    /\ \A i \in 1..Len(issued) :
          issued[i].argv[1] = S("cmake") =>
             /\ issued[i].argv = custom_build_opts
             /\ stages[Len(stages) - (Len(issued) - i)].stage = "configure"

C22_Kept ==
    /\ WizardStep(pc) >= 2 => server_name' = server_name
    /\ WizardStep(pc) >= 3 => selected_mode' = selected_mode
    /\ WizardStep(pc) >= 4 => custom_build_opts' = custom_build_opts /\ use_ninja' = use_ninja

\* C22: once the pipeline has started one valid server name and one mode of
\* the catalog are selected; the name does not change after name entry, the
\* mode not after mode selection, and the argument list and use_ninja not
\* after customization ended; the configure stage is given exactly that list
\* and runs it at most once.
C22_SelectionsFixed == [] C22_Selected /\ [][C22_Kept]_vars

\* the configure stage has run a customized list
C22_Witness ==
    /\ pc = "Compile"
    /\ custom_build_opts # Mode.build_opts
    /\ Len(issued) >= 2
    /\ issued[Len(issued)].argv = custom_build_opts
    /\ stages[Len(stages)] = StageEntry("configure", "ok")
----------------------------------------------------------------------------
(* Properties of the two forced flags (specification SpecCustomize) *)

\* customize_build_options has returned
CustomizationEnded == pc \in { "NoChangesPause", "VerboseToggle" }

\* the positions of the argument list that set `flag`
SettingsOf(flag) ==
    { k \in 1..Len(custom_build_opts) :
         /\ Len(custom_build_opts[k]) > Len(flag)
         /\ SubSeq(custom_build_opts[k], 1, Len(flag)) = flag
         /\ custom_build_opts[k][Len(flag) + 1] = "=" }

\* `entry` stands in the list after every entry of a changed option
AppendedAfterChanges(entry) ==
    \E k \in (2 + Len(ChangedEntriesFrom(1)) + 1)..Len(custom_build_opts) :
        custom_build_opts[k] = entry

\* C23: when customization ends with a change, -DCLIENT=OFF is appended
\* exactly when no entry of a changed option names -DCLIENT, and -DSERVER=ON
\* exactly when none names -DSERVER; every returned argument list begins with
\* cmake ../source/ and sets -DCLIENT exactly once and -DSERVER exactly once.
C23_ForcedFlags ==
    /\ CustomizationChanged =>
          /\ AppendedAfterChanges(<< "-D", "CLIENT", "=", "OFF" >>)
                <=> ~ Mentions(ChangedEntriesFrom(1), << "-D", "CLIENT" >>)
          /\ AppendedAfterChanges(<< "-D", "SERVER", "=", "ON" >>)
                <=> ~ Mentions(ChangedEntriesFrom(1), << "-D", "SERVER" >>)
    /\ CustomizationEnded =>
          /\ Len(custom_build_opts) >= 2
          /\ custom_build_opts[1] = S("cmake")
          /\ custom_build_opts[2] = S("../source/")
          /\ Cardinality(SettingsOf(<< "-D", "CLIENT" >>)) = 1
          /\ Cardinality(SettingsOf(<< "-D", "SERVER" >>)) = 1

\* the client was switched on and the server off, so neither flag was appended
C23_Witness ==
    /\ CustomizationChanged
    /\ custom_build_opts = << S("cmake"), S("../source/"),
                              << "-D", "CLIENT", "=", "ON" >>,
                              << "-D", "SERVER", "=", "OFF" >> >>
----------------------------------------------------------------------------
(* Properties of commands that name no table option (specification SpecCustomize) *)

\* lines that designate no option of the table: an unknown flag name, a digit
\* string that is no index of the table, no selector at all, and a line that
\* is no command
NonDesignatingInputs ==
    { << "-D", "FOO", "=", v >> : v \in ValuePieces } \cup
    { << d, "=", v >> : d \in { p \in IndexPieces(Available) :
                                   \A i \in 1..Len(Available) : p # ToString(i) },
                        v \in ValuePieces } \cup
    { << "=", "ON" >>, S("foo") }

\* C24: a command that designates no table option (unknown flag name, index
\* outside 1..number of options, or a line of no accepted form) leaves every
\* option value and use_ninja as they were and the loop goes on; the returned
\* argument list never holds the unknown flag.
C24_UnknownRecordsNothing ==
    /\ (last_cmd.input \in NonDesignatingInputs /\ ~ CustomizationEnded) =>
          /\ current_options = last_cmd.before
          /\ use_ninja_loop = last_cmd.ninja_before
          /\ pc \in { "CustomizeLoop", "CustomizePause" }
          /\ raised = "none"
    /\ ~ Mentions(custom_build_opts, << "-D", "FOO" >>)
    /\ ~ Mentions(custom_build_opts, S("foo"))
----------------------------------------------------------------------------
(* Properties of generator options (specification SpecCustomize) *)

\* C25: for a generator option chosen by index or by name no value is
\* rejected: ON, YES, TRUE and 1 in any letter case set it to ON and every
\* other value sets it to OFF, and for -GNinja use_ninja becomes true in the
\* first case and false in the second.
C25_GeneratorValues ==
    pc \in { "CustomizeLoop", "CustomizePause", "exited" } =>
        \A i \in 1..Len(Available), value \in ValuePieces :
            (/\ Available[i].option_type = "generator"
             /\ last_cmd.input \in { << ToString(i), "=", value >>,
                                     Available[i].name \o << "=", value >> })
                => /\ pc = "CustomizeLoop"
                   /\ last_cmd.outcome = "set"
                   /\ current_options =
                         [ last_cmd.before EXCEPT ![Available[i].name] =
                              IF value \in TruthySpellings THEN S("ON") ELSE S("OFF") ]
                   /\ Available[i].name = << "-G", "Ninja" >>
                         => use_ninja_loop = (value \in TruthySpellings)

\* Ninja was on and `-GNinja=maybe` switched it off
C25_Witness ==
    /\ pc = "CustomizeLoop"
    /\ last_cmd.input = << "-G", "Ninja", "=", "maybe" >>
    /\ last_cmd.ninja_before
    /\ last_cmd.before[GNinja] = S("ON")
    /\ current_options[GNinja] = S("OFF")
    /\ ~ use_ninja_loop
----------------------------------------------------------------------------
(* Properties of the Ninja selection (specification SpecCustomize) *)

NinjaInList == \E k \in 1..Len(custom_build_opts) : custom_build_opts[k] = << "-G", "Ninja" >>

NinjaValueOn == current_options # NoOptions /\ current_options[<< "-G", "Ninja" >>] = S("ON")

NinjaPackages == { S("ninja"), S("ninja-build") }

\* C26: during the loop use_ninja is true exactly when -GNinja stands at ON;
\* the use_ninja returned is true exactly when the final value of -GNinja is
\* ON and exactly when the returned list holds the -GNinja token; with the
\* returned values the install command holds the ninja package, and the
\* compile command is ninja, exactly when the list holds -GNinja.
C26_NinjaConsistent ==
    /\ pc \in { "CustomizeLoop", "CustomizePause" } => (use_ninja_loop <=> NinjaValueOn)
    /\ CustomizationEnded =>
          /\ use_ninja <=> NinjaValueOn
          /\ use_ninja <=> NinjaInList
          /\ \A pm \in PackageManager \ { "unknown" }, root \in BOOLEAN :
                (\E k \in 1..Len(InstallCommand(pm, root, Mode, use_ninja)) :
                    InstallCommand(pm, root, Mode, use_ninja)[k] \in NinjaPackages)
                <=> NinjaInList
          /\ \A cpu_count \in CpuCounts :
                /\ NinjaInList => CompileCommand(use_ninja, cpu_count) = << S("ninja") >>
                /\ ~ NinjaInList => CompileCommand(use_ninja, cpu_count)[1] = S("make")

\* the shorthand switched Ninja on and customization returned it
C26_Witness ==
    /\ pc = "VerboseToggle"
    /\ use_ninja
    /\ NinjaValueOn
    /\ custom_build_opts = << S("cmake"), S("../source/"), << "-G", "Ninja" >>,
                              << "-D", "CLIENT", "=", "OFF" >>,
                              << "-D", "SERVER", "=", "ON" >> >>
----------------------------------------------------------------------------
(* Properties of the selector forms (specification SpecCustomize) *)

\* what the line `user_input` would do in the present state of the loop
Effect(user_input) == LoopBody(Available, current_options, use_ninja_loop, user_input)

\* C27: in every state of the loop, for every option at table position k with
\* name n and every value v, the lines `k=v` and `n=v` lead to the same option
\* values, the same use_ninja and the same acceptance or rejection; and the
\* line `-GNinja` leads to the same values and flag as `-GNinja=ON`.
C27_SelectorFormsAgree ==
    pc = "CustomizeLoop" =>
        /\ \A k \in 1..Len(Available), v \in ValuePieces :
              /\ Effect(<< ToString(k), "=", v >>) = Effect(Available[k].name \o << "=", v >>)
              /\ Effect(<< ToString(k), "=", v >>).outcome \in { "set", "invalid_boolean" }
        /\ Effect(<< "-G", "Ninja" >>) = Effect(<< "-G", "Ninja", "=", "ON" >>)
        /\ Effect(<< "-G", "Ninja" >>).ninja
        /\ last_cmd.outcome \in { "set", "invalid_boolean" } =>
              \A k \in 1..Len(Available), v \in ValuePieces :
                 last_cmd.input \in { << ToString(k), "=", v >>, Available[k].name \o << "=", v >> }
                    => /\ current_options =
                             LoopBody(Available, last_cmd.before, last_cmd.ninja_before,
                                      << ToString(k), "=", v >>).cur
                       /\ current_options =
                             LoopBody(Available, last_cmd.before, last_cmd.ninja_before,
                                      Available[k].name \o << "=", v >>).cur

\* `1=yes` switched the first option on, as its name form does from the same state
C27_Witness ==
    /\ pc = "CustomizeLoop"
    /\ last_cmd.input = << "1", "=", "yes" >>
    /\ current_options # last_cmd.before
    /\ current_options = LoopBody(Available, last_cmd.before, last_cmd.ninja_before,
                                  << "-D", "CLIENT", "=", "yes" >>).cur
----------------------------------------------------------------------------
(* Properties of the directories (specification Spec) *)

ServerDirs ==
    { StartDir \o << server_name >>,
      StartDir \o << server_name, S("source") >>,
      StartDir \o << server_name, S("server") >> }

InstallSucceeded == stages # << >> /\ stages[1] = [ stage |-> "install", result |-> "ok" ]

CloneIssued == \E i \in 1..Len(issued) : issued[i].argv[1] = S("git")

C28_Dirs ==
    /\ dirs \subseteq ServerDirs
    /\ dirs # { } => InstallSucceeded
    /\ CloneIssued => dirs = ServerDirs
    /\ (pc = "exited" /\ ~ InstallSucceeded) => dirs = { }
    /\ (disk_ok = "low" \/ sudo_ok = "no") => dirs = { }

C28_Made ==
    dirs' # dirs =>
        /\ InstallSucceeded
        /\ Len(stages) = 1
        /\ ~ CloneIssued
        /\ issued' = issued

\* C28: a run that ends before the install stage succeeded (disk check or
\* elevation failed, install command failed, or the user declined on an
\* unknown package manager) has created no directory; the server directory
\* and its source and server subdirectories are created only after the
\* install stage succeeded and before the clone command is started, and all
\* three exist when it is started.
C28_DirsAfterInstall == [] C28_Dirs /\ [][C28_Made]_vars

\* the install command failed and the run ended without any directory
C28_Witness ==
    /\ pc = "exited"
    /\ package_manager # "unknown"
    /\ stages = << StageEntry("install", "failed") >>
    /\ Len(issued) = 1
    /\ dirs = { }

============================================================================
